---- MODULE Spec2Model ----
(***************************************************************************)
(* Reconciliation pipeline of the lottery analyser front end (app.js):     *)
(* App.initFetch, App.processAndRender, App.checkSystemStatus and the      *)
(* dashboard readers, as a state machine.  Every action is one atomic      *)
(* segment of the JavaScript event loop: the code between two awaits.      *)
(*                                                                         *)
(* Game names are transliterated (TLA+ strings are ASCII):                 *)
(*   Lotto649 = the 6/49 game, Power638 = the 6/38 + zone2 game,           *)
(*   Daily539 = the 5/39 game, Star3 / Star4 = the 3 and 4 digit games.    *)
(***************************************************************************)
EXTENDS Integers, Sequences, FiniteSets, TLC

VARIABLES
    state,      \* App.state: rawData, rawJackpots, currentGame, caches, time stamps
    dom,        \* what the page shows: system status, dashboard, prediction output
    cyc,        \* the initFetch invocations: position (pc) and locals of each
    nStarted,   \* number of accepted initFetch invocations
    now,        \* Date.now(), in ms
    world,      \* what the adapters hold: baseline feed, archives, live feed
    storage,    \* the persisted local cache (localStorage)
    passes,     \* history: the merge passes installed so far, oldest first
    budget,     \* number of reconciliation cycles this run may start
    srv,        \* the API server: its environment, the request in hand, what it sent
    cal,        \* the calendar: today, and the last question put to getNextDrawDate
    inits,      \* the App.init invocations, oldest first: position of each
    timers      \* the page's timer table: the ids handed out, the timers pending

vars == <<state, dom, cyc, nStarted, now, world, storage, passes, budget, srv, cal,
          inits, timers>>

----------------------------------------------------------------------------
(* Bounds of the model *)

MaxCycles == 2
MaxTicks == 2
NumZips == 2
MaxDays == 7

(* Program constants *)

COOLDOWN_MS == 5000
DASHBOARD_UPDATE_THROTTLE == 100
FRESH_DAYS == 3
TODAY_SLICE == 5
DAY_MS == 86400000

(* The clock advances in steps of TickMs from midnight of day StartDay. *)
TickMs == 2500
StartDay == 5

----------------------------------------------------------------------------
(* GAME_CONFIG *)

GAMES ==
    [ Lotto649 |-> [type |-> "lotto", range |-> 49, count |-> 6, special |-> TRUE,
                    zone2 |-> 0, drawDays |-> <<2, 5>>],
      Power638 |-> [type |-> "power", range |-> 38, count |-> 6, special |-> FALSE,
                    zone2 |-> 8, drawDays |-> <<1, 4>>],
      Daily539 |-> [type |-> "lotto", range |-> 39, count |-> 5, special |-> FALSE,
                    zone2 |-> 0, drawDays |-> <<1, 2, 3, 4, 5, 6>>],
      Star3    |-> [type |-> "digit", range |-> 9,  count |-> 3, special |-> FALSE,
                    zone2 |-> 0, drawDays |-> <<1, 2, 3, 4, 5, 6>>],
      Star4    |-> [type |-> "digit", range |-> 9,  count |-> 4, special |-> FALSE,
                    zone2 |-> 0, drawDays |-> <<1, 2, 3, 4, 5, 6>>] ]

GameNames == DOMAIN GAMES

ORDER == <<"Lotto649", "Power638", "Daily539", "Star3", "Star4">>

----------------------------------------------------------------------------
(* JavaScript values *)

\* An object with no keys: {}.
EmptyObj == [g \in {} |-> <<>>]

\* null / undefined, and a present value.
None == [has |-> FALSE, v |-> EmptyObj]
Some(x) == [has |-> TRUE, v |-> x]

\* NaN, the result of a failed numeric coercion.
NaN == -1000000

\* A number that is not whole, v + 1/2, is written FRACTION + v; the whole
\* numbers of the runs are far below FRACTION.
FRACTION == 1000000
IsWhole(n) == n < FRACTION \div 2
Floor(n) == IF IsWhole(n) THEN n ELSE n - FRACTION

\* Number(n): a number is itself, a numeric string is its value ("7.5" and
\* 7.5 are seven and a half), anything else is NaN.
Number(e) ==
    IF e.t = "bad" THEN NaN
    ELSE IF e.t = "half" THEN FRACTION + e.v
    ELSE e.v

isNaN(n) == n = NaN

\* new Date(item.date): a feed's date is a calendar day; its Date is the
\* time stamp of that day's midnight.
ToDate(d) == d * DAY_MS

\* Array.prototype.slice(0, n)
Slice(s, n) == SubSeq(s, 1, IF Len(s) < n THEN Len(s) ELSE n)

\* Array.prototype.filter
RECURSIVE SelectSeqBy(_, _)
SelectSeqBy(s, keep) ==
    IF s = <<>> THEN <<>>
    ELSE IF Head(s) \in keep THEN <<Head(s)>> \o SelectSeqBy(Tail(s), keep)
         ELSE SelectSeqBy(Tail(s), keep)

Range(s) == {s[i] : i \in DOMAIN s}

\* obj[key] || []
Get(obj, g) == IF g \in DOMAIN obj THEN obj[g] ELSE <<>>

----------------------------------------------------------------------------
(* utils.js: mergeLotteryData(baseData, zipResults, third, fourth).        *)
(* Sources are combined in ascending precedence (baseline, the archive     *)
(* batches in order, the third argument, the fourth argument); a later     *)
(* record replaces an earlier one of the same (game, period); the result   *)
(* is ordered newest first by date, ties by period descending.             *)

RECURSIVE FlattenZips(_, _)
FlattenZips(zipResults, g) ==
    IF zipResults = <<>> THEN <<>>
    ELSE Get(Head(zipResults), g) \o FlattenZips(Tail(zipResults), g)

ZipGames(zipResults) == UNION {DOMAIN zipResults[k] : k \in DOMAIN zipResults}

\* The records of game g in the order the sources are combined.
Combined(base, zipResults, third, fourth, g) ==
    Get(base, g) \o FlattenZips(zipResults, g) \o Get(third, g)
        \o (IF fourth.has THEN Get(fourth.v, g) ELSE <<>>)

\* One record per period: the last one supplied.
DedupByPeriod(s) ==
    {s[i] : i \in {j \in DOMAIN s : \A k \in DOMAIN s : k > j => s[k].period # s[j].period}}

Newer(a, b) ==
    \/ ToDate(a.date) > ToDate(b.date)
    \/ ToDate(a.date) = ToDate(b.date) /\ a.period > b.period

RECURSIVE SortNewestFirst(_)
SortNewestFirst(recs) ==
    IF recs = {} THEN <<>>
    ELSE LET top == CHOOSE r \in recs : \A q \in recs \ {r} : Newer(r, q)
         IN  <<top>> \o SortNewestFirst(recs \ {top})

mergeLotteryData(baseData, zipResults, third, fourth) ==
    LET names == DOMAIN baseData.games \cup ZipGames(zipResults) \cup DOMAIN third
                    \cup (IF fourth.has THEN DOMAIN fourth.v ELSE {})
    IN  [games |->
            [g \in names |->
                SortNewestFirst(DedupByPeriod(
                    Combined(baseData.games, zipResults, third, fourth, g)))]]

----------------------------------------------------------------------------
(* App.processAndRender: normalisation of the merged records *)

minValid(g) == IF g \in GameNames /\ GAMES[g].type = "digit" THEN 0 ELSE 1

RECURSIVE CleanItems(_, _)
CleanItems(items, min) ==
    IF items = <<>> THEN <<>>
    ELSE LET n == Number(Head(items))
         IN  (IF ~isNaN(n) /\ Floor(n) >= min THEN <<n>> ELSE <<>>)
                 \o CleanItems(Tail(items), min)

\* clean(arr): Array.isArray(arr) ? arr.map(Number).filter(...) : []
clean(arr, min) == IF arr.isArray THEN CleanItems(arr.items, min) ELSE <<>>

\* The slice applied after cleaning: 5 for the 'today' type, count for digits.
Truncate(g, nums) ==
    IF g \notin GameNames THEN nums
    ELSE IF GAMES[g].type = "today" THEN Slice(nums, TODAY_SLICE)
    ELSE IF GAMES[g].type = "digit" THEN Slice(nums, GAMES[g].count)
    ELSE nums

NormalizeItem(g, item) ==
    [ period       |-> item.period,
      jackpot      |-> item.jackpot,
      date         |-> ToDate(item.date),
      numbers      |-> Truncate(g, clean(item.numbers, minValid(g))),
      numbers_size |-> Truncate(g, clean(item.numbers_size, minValid(g))) ]

\* Mutant: records left without numbers_size by the cleaning are dropped.
NormalizeGames_DropEmpty(games) ==
    [g \in DOMAIN games |->
        SelectSeqBy([i \in DOMAIN games[g] |-> NormalizeItem(g, games[g][i])],
                    {NormalizeItem(g, games[g][i]) : i \in
                        {j \in DOMAIN games[g] :
                            NormalizeItem(g, games[g][j]).numbers_size # <<>>}})]

NormalizeGames(games) ==
    [g \in DOMAIN games |-> [i \in DOMAIN games[g] |-> NormalizeItem(g, games[g][i])]]

----------------------------------------------------------------------------
(* Readers of the Timeline *)

\* App.renderHotStats: the five most frequent numbers of a window.
HOT_TOP == 5
STAT_MONTH == 30
STAT_RECENT == 10

\* The values drawn in the window, and how often each occurs (freq).
Drawn(dataset) == UNION {Range(dataset[i].numbers) : i \in DOMAIN dataset}

RECURSIVE CountIn(_, _)
CountIn(nums, n) ==
    IF nums = <<>> THEN 0
    ELSE (IF Head(nums) = n THEN 1 ELSE 0) + CountIn(Tail(nums), n)

RECURSIVE Freq(_, _)
Freq(dataset, n) ==
    IF dataset = <<>> THEN 0
    ELSE CountIn(Head(dataset).numbers, n) + Freq(Tail(dataset), n)

\* Object.entries(freq): the keys are integers, so they come in ascending order.
RECURSIVE Entries(_, _)
Entries(dataset, keys) ==
    IF keys = {} THEN <<>>
    ELSE LET k == CHOOSE x \in keys : \A y \in keys : x <= y
         IN  <<[n |-> k, c |-> Freq(dataset, k)]>> \o Entries(dataset, keys \ {k})

\* Mutant: the comparison of the sort is a[1] - b[1].
RECURSIVE InsertByCount_Ascending(_, _)
InsertByCount_Ascending(x, sorted) ==
    IF sorted = <<>> THEN <<x>>
    ELSE IF Head(sorted).c <= x.c
         THEN <<Head(sorted)>> \o InsertByCount_Ascending(x, Tail(sorted))
         ELSE <<x>> \o sorted

\* .sort((a, b) => b[1] - a[1]): stable, highest count first.
RECURSIVE InsertByCount(_, _)
InsertByCount(x, sorted) ==
    IF sorted = <<>> THEN <<x>>
    ELSE IF Head(sorted).c >= x.c
         THEN <<Head(sorted)>> \o InsertByCount(x, Tail(sorted))
         ELSE <<x>> \o sorted

RECURSIVE SortByCountDesc(_)
SortByCountDesc(s) ==
    IF s = <<>> THEN <<>>
    ELSE InsertByCount(s[Len(s)], SortByCountDesc(SubSeq(s, 1, Len(s) - 1)))

\* An element of the page that has not been drawn yet.
EmptyStat == [noData |-> FALSE, top |-> <<>>]

renderHotStats(dataset) ==
    IF Len(dataset) = 0 THEN [noData |-> TRUE, top |-> <<>>]
    ELSE [noData |-> FALSE,
          top |-> Slice(SortByCountDesc(Entries(dataset, Drawn(dataset))), HOT_TOP)]

\* Dates as whole days since 1970-01-01, a Thursday.
EPOCH_DAY == 4
getDay(date) == (date + EPOCH_DAY) % 7

\* What getNextDrawDate returns: "--", or the date and its weekday as text.
Unscheduled == [set |-> FALSE, date |-> 0, week |-> 0]
DateText(date) == [set |-> TRUE, date |-> date, week |-> getDay(date)]

\* The calendar before any question, on day StartDay.
CalendarStart == [today |-> StartDay, asked |-> FALSE, drawDays |-> <<>>, shown |-> Unscheduled]

\* drawDays.find(d => d > currentDay): the position of the first such day,
\* 0 if none.
FindAfter(drawDays, currentDay) ==
    IF \E i \in DOMAIN drawDays : drawDays[i] > currentDay
    THEN CHOOSE i \in DOMAIN drawDays :
            /\ drawDays[i] > currentDay
            /\ \A j \in 1..(i - 1) : ~(drawDays[j] > currentDay)
    ELSE 0

\* App.getNextDrawDate, asked on the day today.
getNextDrawDate(drawDays, today) ==
    IF Len(drawDays) = 0 THEN Unscheduled
    ELSE LET currentDay == getDay(today)
             found == FindAfter(drawDays, currentDay)
             daysToAdd == IF found # 0 THEN drawDays[found] - currentDay
                          ELSE (7 - currentDay) + drawDays[1]
         IN  DateText(today + daysToAdd)

\* The text of an input or of a select option is the sequence of its
\* characters, decimal digits in the runs; "" is <<>>.
\* String(n), for a whole number n >= 0.
RECURSIVE String(_)
String(n) == IF n < 10 THEN <<n>> ELSE String(n \div 10) \o <<n % 10>>

\* String.prototype.includes
includes(text, part) ==
    \E i \in 0..(Len(text) - Len(part)) : SubSeq(text, i + 1, i + Len(part)) = part

\* parseInt of a text of digits.
RECURSIVE parseInt(_)
parseInt(text) ==
    IF text = <<>> THEN NaN
    ELSE IF Len(text) = 1 THEN text[1]
    ELSE parseInt(SubSeq(text, 1, Len(text) - 1)) * 10 + text[Len(text)]

\* Date.prototype.getFullYear and getMonth of a time stamp, in UTC.
IsLeap(y) == (y % 4 = 0 /\ y % 100 # 0) \/ y % 400 = 0
DaysInYear(y) == IF IsLeap(y) THEN 366 ELSE 365
DaysInMonth(y, m) ==
    IF m = 1 THEN (IF IsLeap(y) THEN 29 ELSE 28)
    ELSE IF m \in {3, 5, 8, 10} THEN 30 ELSE 31

RECURSIVE YearFrom(_, _)
YearFrom(y, day) ==
    IF day < DaysInYear(y) THEN [year |-> y, day |-> day]
    ELSE YearFrom(y + 1, day - DaysInYear(y))

RECURSIVE MonthFrom(_, _, _)
MonthFrom(y, m, day) ==
    IF day < DaysInMonth(y, m) THEN m ELSE MonthFrom(y, m + 1, day - DaysInMonth(y, m))

getFullYear(date) == YearFrom(1970, date \div DAY_MS).year
getMonth(date) ==
    LET yd == YearFrom(1970, date \div DAY_MS) IN MonthFrom(yd.year, 0, yd.day)

\* The three filters of updateDashboard over the period, the year and the
\* month typed or selected; an empty text filters nothing.
Filtered(data, filterPeriod, filterYear, filterMonth) ==
    LET keep == {item \in Range(data) :
                    /\ filterPeriod # <<>> => includes(String(item.period), filterPeriod)
                    /\ filterYear # <<>> => getFullYear(item.date) = parseInt(filterYear)
                    /\ filterMonth # <<>> => getMonth(item.date) + 1 = parseInt(filterMonth)}
    IN  SelectSeqBy(data, keep)

\* App.updateDashboard at time t, throttled.
updateDashboard(S, t) ==
    IF t - S.state.lastDashboardUpdate < DASHBOARD_UPDATE_THROTTLE THEN S
    ELSE LET g == S.state.currentGame
             data == Filtered(Get(S.state.rawData, g), S.state.filterPeriod,
                              S.state.filterYear, S.state.filterMonth)
         IN  [ state |-> [S.state EXCEPT !.lastDashboardUpdate = t],
               dom   |-> [S.dom EXCEPT !.dash =
                            [ game    |-> g,
                              data    |-> data,
                              filters |-> <<S.state.filterPeriod, S.state.filterYear,
                                            S.state.filterMonth>>,
                              jackpot |-> IF g \in DOMAIN S.state.rawJackpots
                                          THEN S.state.rawJackpots[g] ELSE 0,
                              nextDraw |-> IF g \in GameNames
                                           THEN getNextDrawDate(GAMES[g].drawDays,
                                                                t \div DAY_MS)
                                           ELSE Unscheduled,
                              statYear   |-> renderHotStats(data),
                              statMonth  |-> renderHotStats(Slice(data, STAT_MONTH)),
                              statRecent |-> renderHotStats(Slice(data, STAT_RECENT)) ]] ]

\* App.renderGameButtons: selects the first game when none is selected.
renderGameButtons(S, t) ==
    IF S.state.currentGame = "" /\ Len(ORDER) > 0
    THEN updateDashboard([S EXCEPT !.state.currentGame = ORDER[1]], t)
    ELSE S

\* Mutant: the games of the previous Timeline that the merge does not return
\* are kept.
processAndRender_Keep(S, mergedData, t) ==
    LET new == NormalizeGames(mergedData.games)
        old == S.state.rawData
    IN  renderGameButtons(
            [S EXCEPT !.state.rawData =
                [g \in DOMAIN old \cup DOMAIN new |->
                    IF g \in DOMAIN new THEN new[g] ELSE old[g]]], t)

\* Mutant: each game's records are stored oldest first.
processAndRender_Reversed(S, mergedData, t) ==
    LET new == NormalizeGames(mergedData.games)
    IN  renderGameButtons(
            [S EXCEPT !.state.rawData =
                [g \in DOMAIN new |->
                    [i \in DOMAIN new[g] |-> new[g][Len(new[g]) + 1 - i]]]], t)

processAndRender(S, mergedData, t) ==
    renderGameButtons([S EXCEPT !.state.rawData = NormalizeGames(mergedData.games)], t)

----------------------------------------------------------------------------
(* App.checkSystemStatus *)

NoDate == -1

MaxOf(ds) == CHOOSE d \in ds : \A e \in ds : e <= d

\* Mutant: a record dated exactly three days ago counts as stale.
checkSystemStatus_Strict(S, t) ==
    LET rd == S.state.rawData
        threeDaysAgo == t - FRESH_DAYS * DAY_MS
        nonEmpty == {g \in DOMAIN rd : Len(rd[g]) > 0}
        firsts == {rd[g][1].date : g \in nonEmpty}
        latestDateObj == IF firsts = {} THEN NoDate ELSE MaxOf(firsts)
        hasLatestData == \E g \in nonEmpty : rd[g][1].date > threeDaysAgo
        dataCount == Cardinality(UNION {{<<g, i>> : i \in DOMAIN rd[g]} : g \in DOMAIN rd})
    IN  IF dataCount = 0 \/ ~hasLatestData
        THEN [S EXCEPT !.dom.status = "error", !.dom.dateStr = latestDateObj]
        ELSE [S EXCEPT !.dom.status = "success", !.dom.dateStr = NoDate]

checkSystemStatus(S, t) ==
    LET rd == S.state.rawData
        threeDaysAgo == t - FRESH_DAYS * DAY_MS
        nonEmpty == {g \in DOMAIN rd : Len(rd[g]) > 0}
        firsts == {rd[g][1].date : g \in nonEmpty}
        latestDateObj == IF firsts = {} THEN NoDate ELSE MaxOf(firsts)
        hasLatestData == \E g \in nonEmpty : rd[g][1].date >= threeDaysAgo
        dataCount == Cardinality(UNION {{<<g, i>> : i \in DOMAIN rd[g]} : g \in DOMAIN rd})
    IN  IF dataCount = 0 \/ ~hasLatestData
        THEN [S EXCEPT !.dom.status = "error", !.dom.dateStr = latestDateObj]
        ELSE [S EXCEPT !.dom.status = "success", !.dom.dateStr = NoDate]

----------------------------------------------------------------------------
(* App.initFetch: the code between its awaits *)

\* The pair the helpers above transform.
Cur == [state |-> state, dom |-> dom]

\* loadFromCache()?.data || {}
LocalCacheData == IF storage.has THEN storage.v ELSE EmptyObj

\* The arguments of the two mergeLotteryData calls.
InitialPassArgs(baseData, zipResults, localCache) ==
    <<[games |-> baseData], zipResults, localCache, None>>

\* Mutant: the live batch and the baseline change places.
RefreshPassArgs_Swapped(baseData, zipResults, liveData) ==
    <<[games |-> liveData], zipResults, baseData, None>>

RefreshPassArgs(baseData, zipResults, liveData) ==
    <<[games |-> baseData], zipResults, liveData, None>>

MergeOf(args) == mergeLotteryData(args[1], args[2], args[3], args[4])

\* liveData[game].sort((a, b) => new Date(b.date) - new Date(a.date)): a
\* stable sort, in place, newest first.
RECURSIVE InsertByDate(_, _)
InsertByDate(x, sorted) ==
    IF sorted = <<>> THEN <<x>>
    ELSE IF ToDate(Head(sorted).date) >= ToDate(x.date)
         THEN <<Head(sorted)>> \o InsertByDate(x, Tail(sorted))
         ELSE <<x>> \o sorted

RECURSIVE SortByDateDesc(_)
SortByDateDesc(s) ==
    IF s = <<>> THEN <<>>
    ELSE InsertByDate(s[Len(s)], SortByDateDesc(SubSeq(s, 1, Len(s) - 1)))

\* The live batch as the loop over its games leaves it.
SortLive(liveData) ==
    [g \in DOMAIN liveData |-> SortByDateDesc(liveData[g])]

\* Mutant: the newest record among those with a positive jackpot is taken.
LatestJackpot_Positive(sortedLive, g) ==
    LET pos == SelectSeqBy(sortedLive[g],
                           {r \in Range(sortedLive[g]) : r.jackpot > 0})
    IN  IF Len(pos) > 0 THEN pos[1].jackpot ELSE 0

\* The jackpot the loop writes for game g: the newest live record's, when positive.
LatestJackpot(sortedLive, g) ==
    IF Len(sortedLive[g]) > 0 /\ sortedLive[g][1].jackpot > 0
    THEN sortedLive[g][1].jackpot ELSE 0

UpdateJackpots(jackpots, sortedLive) ==
    LET hit == {g \in DOMAIN sortedLive : LatestJackpot(sortedLive, g) > 0}
    IN  [g \in DOMAIN jackpots \cup hit |->
            IF g \in hit THEN LatestJackpot(sortedLive, g) ELSE jackpots[g]]

\* One line of the history of installed passes: what was installed, and the
\* batch each source supplied to the cycle (None: not an input of the pass).
PassEntry(i, kind, S, baseData, zipResults, localCache, liveData) ==
    [cycle |-> i, kind |-> kind, tl |-> S.state.rawData, jp |-> S.state.rawJackpots,
     base |-> baseData, zips |-> zipResults, cache |-> localCache, live |-> liveData]

\* The catch block: checkSystemStatus(); renderGameButtons().
CatchBlock(S, t) == renderGameButtons(checkSystemStatus(S, t), t)

\* Phase 1, from the local cache read to the call of fetchLiveLotteryData.
Phase1(i, S, baseData, zipResults) ==
    LET args == InitialPassArgs(baseData, zipResults, LocalCacheData)
        S1 == processAndRender(S, MergeOf(args), now)
    IN  /\ state' = S1.state
        /\ dom' = S1.dom
        /\ passes' = Append(passes, PassEntry(i, "initial", S1, baseData, zipResults,
                                               Some(LocalCacheData), None))
        /\ cyc' = [cyc EXCEPT ![i] = [pc |-> "live", baseData |-> baseData,
                                      zipResults |-> zipResults]]

\* After the baseline is known: the cached archives are used, or fetched.
AfterBase(i, S, baseData) ==
    IF S.state.zipDataCache.has
    THEN Phase1(i, S, baseData, S.state.zipDataCache.v)
    ELSE /\ state' = S.state
         /\ dom' = S.dom
         /\ cyc' = [cyc EXCEPT ![i] = [pc |-> "zips", baseData |-> baseData,
                                       zipResults |-> <<>>]]
         /\ UNCHANGED passes

Failed(i, S) ==
    LET S1 == CatchBlock(S, now)
    IN  /\ state' = S1.state
        /\ dom' = S1.dom
        /\ cyc' = [cyc EXCEPT ![i].pc = "done"]
        /\ UNCHANGED passes

\* A call within the cooldown returns at once.
InitFetchSkipped ==
    /\ now - state.lastInitFetchTime < COOLDOWN_MS
    /\ UNCHANGED vars

\* Mutant: the call is accepted whatever the time since the last one.
InitFetchAccepted_Always ==
    /\ nStarted < budget
    /\ nStarted' = nStarted + 1
    /\ state' = [state EXCEPT !.lastInitFetchTime = now]
    /\ dom' = [dom EXCEPT !.status = "loading"]
    /\ cyc' = [cyc EXCEPT ![nStarted + 1].pc = "json"]
    /\ UNCHANGED <<now, world, storage, passes, budget, srv, cal, inits, timers>>

\* An accepted call: up to the await of the baseline fetch.
InitFetchAccepted ==
    /\ nStarted < budget
    /\ ~(now - state.lastInitFetchTime < COOLDOWN_MS)
    /\ nStarted' = nStarted + 1
    /\ state' = [state EXCEPT !.lastInitFetchTime = now]
    /\ dom' = [dom EXCEPT !.status = "loading"]
    /\ cyc' = [cyc EXCEPT ![nStarted + 1].pc = "json"]
    /\ UNCHANGED <<now, world, storage, passes, budget, srv, cal, inits, timers>>

\* The baseline fetch rejects: the catch block runs.
JsonFetchFailed(i) ==
    /\ cyc[i].pc = "json"
    /\ Failed(i, Cur)
    /\ UNCHANGED <<nStarted, now, world, storage, budget, srv, cal, inits, timers>>

\* The baseline fetch resolves with a response that is not ok.
JsonFetchNotOk(i) ==
    /\ cyc[i].pc = "json"
    /\ AfterBase(i, Cur, EmptyObj)
    /\ UNCHANGED <<nStarted, now, world, storage, budget, srv, cal, inits, timers>>

\* The baseline fetch resolves ok: await jsonRes.json().
JsonFetchOk(i) ==
    /\ cyc[i].pc = "json"
    /\ cyc' = [cyc EXCEPT ![i].pc = "body"]
    /\ UNCHANGED <<state, dom, nStarted, now, world, storage, passes, budget, srv, cal, inits, timers>>

\* The body does not parse: the catch block runs.
JsonBodyFailed(i) ==
    /\ cyc[i].pc = "body"
    /\ Failed(i, Cur)
    /\ UNCHANGED <<nStarted, now, world, storage, budget, srv, cal, inits, timers>>

\* The body parses: baseData and rawJackpots are taken from it.
JsonBodyParsed(i) ==
    /\ cyc[i].pc = "body"
    /\ AfterBase(i,
            [Cur EXCEPT !.state.rawJackpots =
                IF world.base.jackpots.has THEN world.base.jackpots.v ELSE EmptyObj],
            world.base.games)
    /\ UNCHANGED <<nStarted, now, world, storage, budget, srv, cal, inits, timers>>

\* Mutant: an archive that fails rejects Promise.all, and the catch block runs.
ZipsSettled_Propagates(i) ==
    /\ cyc[i].pc = "zips"
    /\ \E okSet \in SUBSET (1..NumZips) :
          IF okSet = 1..NumZips
          THEN Phase1(i, [Cur EXCEPT !.state.zipDataCache = Some(world.zips)],
                      cyc[i].baseData, world.zips)
          ELSE Failed(i, Cur)
    /\ UNCHANGED <<nStarted, now, world, storage, budget, srv, cal, inits, timers>>

\* Promise.all of the archive fetches settles; a failed archive is {}.
ZipsSettled(i) ==
    /\ cyc[i].pc = "zips"
    /\ \E okSet \in SUBSET (1..NumZips) :
          LET zipResults == [k \in 1..NumZips |->
                                IF k \in okSet THEN world.zips[k] ELSE EmptyObj]
          IN  Phase1(i, [Cur EXCEPT !.state.zipDataCache = Some(zipResults)],
                     cyc[i].baseData, zipResults)
    /\ UNCHANGED <<nStarted, now, world, storage, budget, srv, cal, inits, timers>>

\* fetchLiveLotteryData rejects: the catch block runs.
LiveFailed(i) ==
    /\ cyc[i].pc = "live"
    /\ Failed(i, Cur)
    /\ UNCHANGED <<nStarted, now, world, storage, budget, srv, cal, inits, timers>>

\* Mutant: the empty-live path returns without the freshness evaluation.
LiveEmpty_Unchecked(i) ==
    /\ cyc[i].pc = "live"
    /\ cyc' = [cyc EXCEPT ![i].pc = "done"]
    /\ UNCHANGED <<state, dom, nStarted, now, world, storage, passes, budget, srv, cal,
                   inits, timers>>

\* fetchLiveLotteryData resolves with null or with {}.
LiveEmpty(i) ==
    /\ cyc[i].pc = "live"
    /\ LET S1 == checkSystemStatus(Cur, now)
       IN  /\ state' = S1.state
           /\ dom' = S1.dom
    /\ cyc' = [cyc EXCEPT ![i].pc = "done"]
    /\ UNCHANGED <<nStarted, now, world, storage, passes, budget, srv, cal, inits, timers>>

\* fetchLiveLotteryData resolves with a batch that has keys: the refresh pass.
LiveArrived(i) ==
    /\ cyc[i].pc = "live"
    /\ DOMAIN world.live # {}
    /\ LET liveData == SortLive(world.live)
           S0 == [Cur EXCEPT !.state.rawJackpots = UpdateJackpots(@, liveData)]
           args == RefreshPassArgs(cyc[i].baseData, cyc[i].zipResults, liveData)
           S1 == processAndRender(S0, MergeOf(args), now)
           S2 == [S1 EXCEPT !.state.liveDataCache = Some(liveData)]
           S3 == IF S2.state.currentGame # "" THEN updateDashboard(S2, now) ELSE S2
           S4 == checkSystemStatus(S3, now)
       IN  /\ state' = S4.state
           /\ dom' = S4.dom
           /\ passes' = Append(passes, PassEntry(i, "refresh", S1, cyc[i].baseData,
                                                  cyc[i].zipResults, None, Some(liveData)))
           /\ \/ storage' = Some(liveData)      \* saveToCache(liveData)
              \/ UNCHANGED storage              \* saveToCache throws, caught
    /\ cyc' = [cyc EXCEPT ![i].pc = "done"]
    /\ UNCHANGED <<nStarted, now, world, budget, srv, cal, inits, timers>>

\* The game buttons the runs click: one game with data, one without.
ClickGames == {"Daily539", "Star4"}

\* A game button's onclick.
ClickGame(g) ==
    /\ state.currentGame # ""
    /\ state.currentGame # g
    /\ LET S0 == [Cur EXCEPT !.state.currentGame = g, !.state.filterPeriod = <<>>,
                              !.state.filterYear = <<>>, !.state.filterMonth = <<>>]
           S1 == updateDashboard(updateDashboard(S0, now), now)
       IN  /\ state' = S1.state
           /\ dom' = S1.dom
    /\ UNCHANGED <<cyc, nStarted, now, world, storage, passes, budget, srv, cal, inits, timers>>

\* Time passes.
Tick ==
    /\ now < StartDay * DAY_MS + MaxTicks * TickMs
    /\ now' = now + TickMs
    /\ UNCHANGED <<state, dom, cyc, nStarted, world, storage, passes, budget, srv, cal, inits, timers>>

Next ==
    \/ InitFetchSkipped
    \/ InitFetchAccepted
    \/ \E i \in 1..MaxCycles :
          \/ JsonFetchFailed(i)
          \/ JsonFetchNotOk(i)
          \/ JsonFetchOk(i)
          \/ JsonBodyFailed(i)
          \/ JsonBodyParsed(i)
          \/ ZipsSettled(i)
          \/ LiveFailed(i)
          \/ LiveEmpty(i)
          \/ LiveArrived(i)
    \/ \E g \in ClickGames : ClickGame(g)
    \/ Tick

----------------------------------------------------------------------------
(* The API server (api routes): JavaScript values of a request body *)

Undefined == [t |-> "undefined", s |-> "", n |-> 0]
Text(s) == [t |-> "string", s |-> s, n |-> 0]
Numeric(n) == [t |-> "number", s |-> "", n |-> n]

\* !x
Falsy(x) ==
    \/ x.t = "undefined"
    \/ x.t = "string" /\ x.s = ""
    \/ x.t = "number" /\ x.n = 0

\* The server before its first request; env is process.env.NODE_ENV.
ServerStart(env) ==
    [ env |-> env, phase |-> "idle",
      req |-> [game |-> Undefined, school |-> Undefined, mode |-> Undefined,
               historyData |-> None, subMode |-> Undefined, userData |-> Undefined,
               excludeNumbers |-> None, setIndex |-> Undefined, seed |-> Undefined],
      calls |-> <<>>, sent |-> <<>> ]

----------------------------------------------------------------------------
(* What the feeds may hold *)

Arr(items) == [isArray |-> TRUE, items |-> items]
NotArr == [isArray |-> FALSE, items |-> <<>>]
Num(v) == [t |-> "num", v |-> v]
Str(v) == [t |-> "str", v |-> v]
Half(v) == [t |-> "half", v |-> v]
Bad == [t |-> "bad", v |-> 0]

Rec(p, d, nums, sz, j) ==
    [period |-> p, date |-> d, numbers |-> nums, numbers_size |-> sz, jackpot |-> j]

\* A batch holding the records s of game g.
One(g, s) == [h \in {g} |-> s]

\* Well-formed draws, as a record of each game's feed.
DrawA == Arr(<<Num(7), Num(39), Num(12)>>)
DrawB == Arr(<<Num(9), Num(7), Num(30)>>)
DigitsA == Arr(<<Num(0), Num(9), Num(5)>>)

\* The worlds of the application runs: every source may be empty, the
\* sources overlap on period 1, the cache alone knows period 2.
AppBases ==
    {[games |-> One("Daily539", <<Rec(1, 2, DrawA, DrawA, 300)>>), jackpots |-> j] :
        j \in {None, Some(One("Daily539", 800))}}

AppZips ==
    {<<z>> \o [k \in 1..(NumZips - 1) |-> EmptyObj] :
        z \in {One("Star3", <<Rec(1, 1, DigitsA, DigitsA, 0)>>)}}

AppCaches ==
    {None, Some(One("Daily539", <<Rec(2, 3, DrawB, DrawB, 0)>>))}

AppLives ==
    {One("Daily539", <<Rec(p, d, DrawB, DrawB, j)>>) :
        p \in {1, 3}, d \in {4}, j \in {0, 500}}

\* this.state.debounceTimers.updateDashboard before the first setTimeout.
NoTimer == 0

\* The timer table of a page that has set no timer: setTimeout hands out the
\* ids 1, 2, ...; a pending timer is its id and the time it is due.  With
\* it, the history of the filter events: how many there were, the time of
\* the last one and the filter values it left, the number of timer
\* callbacks run since, and the number run in all.
TimersStart ==
    [next |-> 1, pending |-> {}, events |-> 0, last |-> None, calls |-> 0, ran |-> 0]

\* The front end after construction, over the feeds and budgets given.
AppInit(bases, zipss, caches, lives, budgets) ==
    /\ state = [ rawData |-> EmptyObj, rawJackpots |-> EmptyObj, currentGame |-> "",
                 lastDashboardUpdate |-> 0, zipDataCache |-> None,
                 liveDataCache |-> None, lastInitFetchTime |-> 0,
                 isInitialized |-> FALSE, isInitializing |-> FALSE,
                 eventListenersAttached |-> FALSE, debounceTimers |-> NoTimer,
                 filterPeriod |-> <<>>, filterYear |-> <<>>, filterMonth |-> <<>> ]
    /\ dom = [ status |-> "idle", dateStr |-> NoDate,
               dash |-> [game |-> "", data |-> <<>>, filters |-> <<<<>>, <<>>, <<>>>>,
                         jackpot |-> 0, nextDraw |-> Unscheduled,
                         statYear |-> EmptyStat, statMonth |-> EmptyStat,
                         statRecent |-> EmptyStat],
               output |-> <<>> ]
    /\ cyc = [i \in 1..MaxCycles |->
                [pc |-> "idle", baseData |-> EmptyObj, zipResults |-> <<>>]]
    /\ nStarted = 0
    /\ now = StartDay * DAY_MS
    /\ world \in {[base |-> b, zips |-> z, live |-> l] :
                    b \in bases, z \in zipss, l \in lives}
    /\ storage \in caches
    /\ passes = <<>>
    /\ budget \in budgets
    /\ inits = <<>>
    /\ timers = TimersStart

InitWith(bases, zipss, caches, lives, budgets) ==
    /\ AppInit(bases, zipss, caches, lives, budgets)
    /\ srv = ServerStart("development")
    /\ cal = CalendarStart

Init == InitWith(AppBases, AppZips, AppCaches, AppLives, {MaxCycles})

Spec == Init /\ [][Next]_vars

----------------------------------------------------------------------------
(* The worlds of the merge runs: one reconciliation cycle over sources that *)
(* overlap on periods 1 and 2, tie on dates, repeat a period inside a batch *)
(* and carry values that do not coerce or lie outside the game's range.     *)

Messy == Arr(<<Str(7), Bad, Num(0), Num(40)>>)
DigitsLong == Arr(<<Num(3), Num(12), Bad, Num(0), Num(4)>>)

MergeBases ==
    {[games |-> One("Daily539", <<Rec(p, d, DrawA, DrawA, 0)>>), jackpots |-> None] :
        p \in {1, 2}, d \in {3, 4}}

MergeZips ==
    {<<z>> \o [k \in 1..(NumZips - 1) |-> EmptyObj] :
        z \in {One("Daily539", <<Rec(1, d, DrawB, DrawB, 0)>>) : d \in {3, 4}}
            \cup {One("Star3", <<Rec(1, 3, DigitsLong, DigitsLong, 0),
                                 Rec(1, 4, DigitsA, DigitsA, 0)>>)}}

MergeCaches ==
    {None} \cup {Some(One("Daily539", <<Rec(2, d, Messy, NotArr, 0)>>)) : d \in {3, 4}}

MergeLives ==
    {One("Daily539", <<Rec(p, d, n, n, 0)>>) :
        p \in {1, 2}, d \in {3, 4}, n \in {DrawB, Messy}}
    \cup {One("Daily539", <<Rec(1, 3, Messy, Messy, 0), Rec(1, 4, DrawA, DrawA, 0)>>)}

InitMerge == InitWith(MergeBases, MergeZips, MergeCaches, MergeLives, {1})

SpecMerge == InitMerge /\ [][Next]_vars

----------------------------------------------------------------------------
(* The worlds of the jackpot runs: a live batch of three records whose      *)
(* dates come in every order, with and without ties, and whose jackpots are *)
(* zero or positive in every combination.                                   *)

JackpotDates ==
    {d \in [1..3 -> 2..4] :
        \/ Cardinality({d[1], d[2], d[3]}) = 3
        \/ \A k \in 1..3 : d[k] \in 3..4}

JackpotLives ==
    {One("Daily539", [k \in 1..3 |->
                        Rec(k, d[k], DrawA, DrawA, IF k \in pos THEN 200 * k + 100 ELSE 0)]) :
        d \in JackpotDates, pos \in SUBSET (1..3)}

InitJackpot == InitWith(AppBases, AppZips, {None}, JackpotLives, {1})

SpecJackpot == InitJackpot /\ [][Next]_vars

----------------------------------------------------------------------------
(* The worlds of the statistics runs: a lotto game whose numbers recur      *)
(* across draws, and a digit game with more draws than the shortest window, *)
(* where a digit may repeat inside one draw.                                *)

HotA == Arr(<<Num(7), Num(9), Num(12), Num(30), Num(39)>>)
HotB == Arr(<<Num(7), Num(1), Num(2), Num(3), Num(4)>>)
HotC == Arr(<<Num(5), Num(6), Num(8), Num(10), Num(11)>>)

StatsBases ==
    {[games |-> One("Daily539", SubSeq(<<Rec(3, 4, HotA, HotA, 0), Rec(2, 3, HotB, HotB, 0),
                                         Rec(1, 2, HotC, HotC, 0)>>, 1, k)),
      jackpots |-> None] : k \in {1, 3}}

\* Draw p of the digit game: the latest repeats a digit, the two before it
\* share one, the older ones run through the digits.
StatsDigits(p) ==
    CASE p = 11 -> Arr(<<Num(9), Num(9), Num(9), Num(1)>>)
      [] p = 10 -> Arr(<<Num(7), Num(1), Num(2), Num(3)>>)
      [] p = 9  -> Arr(<<Num(7), Num(4), Num(5), Num(6)>>)
      [] OTHER  -> Arr([i \in 1..4 |-> Num((p + 2 * i) % 10)])

StatsZips ==
    {<<z>> \o [k \in 1..(NumZips - 1) |-> EmptyObj] :
        z \in {EmptyObj}
            \cup {One("Star4", [k \in 1..n |->
                                  Rec(12 - k, IF k <= 3 THEN 5 - k ELSE 1,
                                      StatsDigits(12 - k), StatsDigits(12 - k), 0)]) :
                      n \in {2, 3, 11}}}

StatsLives ==
    {One("Daily539", <<Rec(p, 4, HotB, HotB, 0)>>) : p \in {3, 4}}

InitStats == InitWith(StatsBases, StatsZips, {None}, StatsLives, {1})

SpecStats == InitStats /\ [][Next]_vars

----------------------------------------------------------------------------
(* The worlds of the archive runs: two archives of the same game, the first *)
(* overlapping the baseline on period 1, each alone in knowing one period.  *)

ArchiveA == One("Daily539", <<Rec(4, 3, DrawB, DrawB, 0), Rec(1, 1, DrawB, DrawB, 0)>>)
ArchiveB == One("Daily539", <<Rec(5, 4, DrawA, DrawA, 0)>>)

ArchiveZips ==
    {[k \in 1..NumZips |-> IF k = 1 THEN ArchiveA ELSE IF k = 2 THEN ArchiveB ELSE EmptyObj]}

InitArchive ==
    InitWith({CHOOSE b \in AppBases : ~b.jackpots.has}, ArchiveZips, AppCaches,
             {CHOOSE l \in AppLives : TRUE}, {MaxCycles})

SpecArchive == InitArchive /\ [][Next]_vars

----------------------------------------------------------------------------
(* The worlds of the normalisation runs: every draw of the feeds has as many *)
(* elements as its game draws, among them numeric strings, a number that is *)
(* not whole, values that do not coerce or lie below the minimum; the field *)
(* numbers_size may be missing.                                             *)

Fractional == Arr(<<Str(7), Half(12), Bad, Num(0), Num(39)>>)
DigitsFractional == Arr(<<Num(0), Str(9), Half(4), Num(5)>>)
DigitsSized == Arr(<<Num(0), Num(4), Num(5), Num(9)>>)

NormalizeBases ==
    {[games |-> One("Daily539", <<Rec(1, 3, n[1], n[2], 0)>>), jackpots |-> None] :
        n \in {<<HotA, HotA>>, <<HotA, NotArr>>, <<Fractional, Fractional>>,
                <<Fractional, HotA>>}}

NormalizeZips ==
    {[k \in 1..NumZips |->
        IF k = 1 THEN One("Star4", <<Rec(1, 3, DigitsFractional, sz, 0)>>) ELSE EmptyObj] :
        sz \in {DigitsFractional, DigitsSized}}

NormalizeLives ==
    {One("Daily539", <<Rec(p, 4, HotB, HotB, 0)>>) : p \in {1, 2}}

InitNormalize == InitWith(NormalizeBases, NormalizeZips, {None}, NormalizeLives, {1})

SpecNormalize == InitNormalize /\ [][Next]_vars

----------------------------------------------------------------------------
(* The calendar runs: getNextDrawDate over a week of days and every list of *)
(* draw days in ascending order, the empty one included.                    *)

\* The weekdays of a set, in ascending order.
RECURSIVE Ascending(_)
Ascending(days) ==
    IF days = {} THEN <<>>
    ELSE LET d == CHOOSE x \in days : \A y \in days : x <= y
         IN  <<d>> \o Ascending(days \ {d})

DrawDayLists == {Ascending(days) : days \in SUBSET (0..6)}

\* The page asks for the next draw of a game with these draw days.
NextDrawAsked(drawDays) ==
    /\ cal' = [cal EXCEPT !.asked = TRUE, !.drawDays = drawDays,
                          !.shown = getNextDrawDate(drawDays, cal.today)]
    /\ UNCHANGED <<state, dom, cyc, nStarted, now, world, storage, passes, budget, srv, inits, timers>>

\* Midnight.
DayPasses ==
    /\ cal.today < StartDay + MaxDays - 1
    /\ cal' = [cal EXCEPT !.today = cal.today + 1, !.asked = FALSE]
    /\ UNCHANGED <<state, dom, cyc, nStarted, now, world, storage, passes, budget, srv, inits, timers>>

NextCalendar ==
    \/ \E drawDays \in DrawDayLists : NextDrawAsked(drawDays)
    \/ DayPasses

InitCalendar ==
    InitWith({CHOOSE b \in AppBases : TRUE}, AppZips, {None}, {CHOOSE l \in AppLives : TRUE}, {0})

SpecCalendar == InitCalendar /\ [][NextCalendar]_vars

----------------------------------------------------------------------------
(* The prediction strategies (algo_balance, algo_stat, algo_pattern,        *)
(* algo_ai): each returns a single selection (an object) or, in a pack      *)
(* mode, a sequence of selections, or raises.  A selection holds count      *)
(* tagged numbers of the game, pairwise distinct and within its range; how  *)
(* says which of its possible behaviours a run of the strategy shows.       *)

MaxTickets == 2

Thrown(m) == [k |-> "throw", msg |-> m, items |-> <<>>, o |-> EmptyObj]
Null == [k |-> "null", msg |-> "", items |-> <<>>, o |-> EmptyObj]
ArrayOf(items) == [k |-> "array", msg |-> "", items |-> items, o |-> EmptyObj]
ObjectOf(o) == [k |-> "object", msg |-> "", items |-> <<>>, o |-> o]

\* {...a, ...b}: the keys of both, b's value where both have the key.
Spread(a, b) ==
    [k \in DOMAIN a \cup DOMAIN b |-> IF k \in DOMAIN b THEN b[k] ELSE a[k]]

\* The numbers of one selection: the lowest or the highest count values.
Selection(gameDef, window) ==
    IF gameDef.is # "def" THEN <<>>
    ELSE LET c == GAMES[gameDef.name].count
             lo == IF window = "low" THEN minValid(gameDef.name)
                   ELSE GAMES[gameDef.name].range - c + 1
         IN  [i \in 1..c |-> [val |-> lo + i - 1, tag |-> "pick"]]

\* The strategy's own metadata.
OwnMetadata(meta) ==
    IF meta = "candidate" THEN [isCandidate |-> Text("true")]
    ELSE IF meta = "conflict"
         THEN [game |-> Text("Other"), school |-> Text("house"), mode |-> Text("auto"),
               timestamp |-> Text("never"), version |-> Text("0.9"),
               source |-> Text("own")]
    ELSE EmptyObj

\* One selection object; own names the key it carries besides the usual ones.
SelectionObject(gameDef, how) ==
    Spread(Spread([numbers |-> Selection(gameDef, how.window), groupReason |-> "why"],
                  IF how.meta = "none" THEN EmptyObj
                  ELSE [metadata |-> OwnMetadata(how.meta)]),
           IF how.own = "success" THEN [success |-> FALSE]
           ELSE IF how.own = "tickets" THEN [tickets |-> <<>>]
           ELSE EmptyObj)

Behaviour(kind, msg, n, window, meta, own) ==
    [kind |-> kind, msg |-> msg, n |-> n, window |-> window, meta |-> meta, own |-> own]

StrategyBehaviours ==
    {Behaviour("throw", m, 0, "low", "none", "none") : m \in {"E1", "E2"}}
    \cup {Behaviour("null", "", 0, "low", "none", "none")}
    \cup {Behaviour("pack", "", n, "low", "none", "none") : n \in 0..MaxTickets}
    \cup {Behaviour("single", "", 0, w, m, "none") :
            w \in {"low", "high"}, m \in {"none", "candidate", "conflict"}}
    \cup {Behaviour("single", "", 0, w, "none", o) :
            w \in {"low", "high"}, o \in {"success", "tickets"}}

\* A run of a strategy: an array only when a pack mode is asked for.
strategy(params, how) ==
    IF how.kind = "throw" THEN Thrown(how.msg)
    ELSE IF how.kind = "null" THEN Null
    ELSE IF how.kind = "pack" /\ ~Falsy(params.packMode)
         THEN ArrayOf([i \in 1..how.n |->
                        SelectionObject(params.gameDef,
                            [how EXCEPT !.window = IF i = 1 THEN "low" ELSE "high"])])
    ELSE ObjectOf(SelectionObject(params.gameDef, how))

----------------------------------------------------------------------------
(* POST /api/predict: the whole handler *)

TARGET_COUNT == 5

ERR_MISSING == "missing required parameters"
ERR_GAME == "invalid game type"
ERR_SCHOOL == "unsupported school"
ERR_PREDICT == "prediction failed"
MSG_SERVER == "server error"
VERSION == "2.0.0"

\* The case labels of the switch.
SCHOOLS == {"balance", "stat", "pattern", "ai"}

\* Keys every object literal inherits from Object.prototype.
ObjectPrototypeKeys == {"constructor", "toString"}

\* GAME_CONFIG.GAMES[game]: a definition, an inherited member, or undefined.
GetGameDef(game) ==
    IF game.t = "string" /\ game.s \in GameNames
    THEN [is |-> "def", name |-> game.s]
    ELSE IF game.t = "string" /\ game.s \in ObjectPrototypeKeys
         THEN [is |-> "inherited", name |-> game.s]
    ELSE [is |-> "undefined", name |-> ""]

\* The mode strings that start with 'pack'.
PackPrefixed == {"pack", "pack_1", "pack_2"}

startsWith(s, prefix) == prefix = "pack" /\ s \in PackPrefixed

\* new Date().toISOString()
toISOString(t) == Text(ToString(t))

\* Mutant: packMode is set for every mode but 'single' and 'random'.
Params_PackByDefault(body, gameDef) ==
    [ data           |-> IF body.historyData.has THEN body.historyData.v ELSE <<>>,
      gameDef        |-> gameDef,
      subModeId      |-> body.subMode,
      excludeNumbers |-> IF body.excludeNumbers.has THEN body.excludeNumbers.v ELSE <<>>,
      random         |-> body.mode = Text("random"),
      mode           |-> body.mode,
      setIndex       |-> IF body.setIndex = Undefined THEN Numeric(0) ELSE body.setIndex,
      packMode       |-> IF body.mode \notin {Text("single"), Text("random")}
                         THEN body.mode ELSE Undefined,
      targetCount    |-> TARGET_COUNT,
      seed           |-> body.seed,
      userData       |-> body.userData ]

\* params, with the defaults of the destructuring (setIndex = 0) and of the
\* literal (historyData || [], excludeNumbers || []).
Params(body, gameDef) ==
    [ data           |-> IF body.historyData.has THEN body.historyData.v ELSE <<>>,
      gameDef        |-> gameDef,
      subModeId      |-> body.subMode,
      excludeNumbers |-> IF body.excludeNumbers.has THEN body.excludeNumbers.v ELSE <<>>,
      random         |-> body.mode = Text("random"),
      mode           |-> body.mode,
      setIndex       |-> IF body.setIndex = Undefined THEN Numeric(0) ELSE body.setIndex,
      packMode       |-> IF startsWith(body.mode.s, "pack") THEN body.mode ELSE Undefined,
      targetCount    |-> TARGET_COUNT,
      seed           |-> body.seed,
      userData       |-> body.userData ]

\* Mutant: the case 'balance' has no break and falls through to 'stat'.
Registered_FallThrough(school) ==
    CASE school = "balance" -> "algoStat"
      [] school = "stat"    -> "algoStat"
      [] school = "pattern" -> "algoPattern"
      [] school = "ai"      -> "algoAI"

\* switch (school): the strategy each case calls.
Registered(school) ==
    CASE school = "balance" -> "algoBalance"
      [] school = "stat"    -> "algoStat"
      [] school = "pattern" -> "algoPattern"
      [] school = "ai"      -> "algoAI"

BadRequest(payload) == [status |-> 400, body |-> payload]

\* Mutant: the development message is sent in every environment.
predictCatch_Leak(env, message) ==
    [status |-> 500,
     body |-> [success |-> FALSE, error |-> ERR_PREDICT, message |-> message]]

\* The catch block of the handler.
predictCatch(env, message) ==
    [status |-> 500,
     body |-> [success |-> FALSE, error |-> ERR_PREDICT,
               message |-> IF env # "production" THEN message ELSE MSG_SERVER]]

\* The metadata the handler derives from the request.
RequestMetadata(body, t) ==
    [game |-> body.game, school |-> body.school, mode |-> body.mode,
     timestamp |-> toISOString(t), version |-> Text(VERSION)]

\* Mutant: the strategy's own metadata is spread last.
SingleMetadata_OwnLast(body, o, t) ==
    Spread(RequestMetadata(body, t),
           IF "metadata" \in DOMAIN o THEN o.metadata ELSE EmptyObj)

\* metadata: {...result.metadata, game, school, mode, timestamp, version}
SingleMetadata(body, o, t) ==
    Spread(IF "metadata" \in DOMAIN o THEN o.metadata ELSE EmptyObj,
           RequestMetadata(body, t))

\* The response of the pack branch.
PackResponse(body, items, t) ==
    [status |-> 200,
     body |-> [success |-> TRUE, tickets |-> items,
               metadata |-> Spread(RequestMetadata(body, t),
                                   [count |-> Numeric(Len(items))])]]

\* Mutant: the strategy's object is not spread into the response.
SingleResponse_NoSpread(body, o, t) ==
    [status |-> 200,
     body |-> [success |-> TRUE, metadata |-> SingleMetadata(body, o, t)]]

\* The response of the single branch: {success: true, ...result, metadata}.
SingleResponse(body, o, t) ==
    [status |-> 200,
     body |-> Spread(Spread([success |-> TRUE], o),
                     [metadata |-> SingleMetadata(body, o, t)])]

\* What the try block does: the strategy calls it made, the responses it
\* sent, in order, and the error that left it, if one did.
\* return res.status(...).json(response)
Reply(calls, response) == [calls |-> calls, sent |-> <<response>>, raised |-> None]

\* An error is raised before any response is sent.
Raise(calls, message) == [calls |-> calls, sent |-> <<>>, raised |-> Some(message)]

\* Mutant: the pack branch sends its response and does not return, so the
\* single branch sends one as well.
ShapeResponse_PackFallsThrough(body, call, t) ==
    IF call.returned.k = "array"
    THEN [calls |-> <<call>>,
          sent |-> <<PackResponse(body, call.returned.items, t),
                     SingleResponse(body, EmptyObj, t)>>,
          raised |-> None]
    ELSE IF call.returned.k = "null"
    THEN Raise(<<call>>, "Cannot read properties of null")
    ELSE Reply(<<call>>, SingleResponse(body, call.returned.o, t))

\* The response shaping, for the value the strategy returned.
ShapeResponse(body, call, t) ==
    IF call.returned.k = "array"
    THEN Reply(<<call>>, PackResponse(body, call.returned.items, t))
    ELSE IF call.returned.k = "null"
    THEN Raise(<<call>>, "Cannot read properties of null")
    ELSE Reply(<<call>>, SingleResponse(body, call.returned.o, t))

\* The try block of the handler, for the request body, the behaviour the
\* strategy shows if it is invoked, and the time.
predictTry(body, how, t) ==
    LET gameDef == GetGameDef(body.game)
    IN  IF Falsy(body.game) \/ Falsy(body.school) \/ Falsy(body.mode)
        THEN Reply(<<>>, BadRequest([error |-> ERR_MISSING,
                                     required |-> <<"game", "school", "mode">>]))
        ELSE IF gameDef.is = "undefined"
        THEN Reply(<<>>, BadRequest([error |-> ERR_GAME, game |-> body.game,
                                     available |-> GameNames]))
        ELSE IF body.mode.t # "string"
        THEN Raise(<<>>, "mode.startsWith is not a function")
        ELSE IF body.school \notin {Text(x) : x \in SCHOOLS}
        THEN Reply(<<>>, BadRequest([error |-> ERR_SCHOOL, school |-> body.school,
                                     available |-> SCHOOLS]))
        ELSE LET params == Params(body, gameDef)
                 result == strategy(params, how)
                 call == [school |-> body.school.s, strategy |-> Registered(body.school.s),
                          params |-> params, returned |-> result]
             IN  IF result.k = "throw"
                 THEN Raise(<<call>>, result.msg)
                 ELSE ShapeResponse(body, call, t)

\* The handler: the try block, and the catch block for the error that left it.
predict(body, how, env, t) ==
    LET r == predictTry(body, how, t)
    IN  [calls |-> r.calls,
         sent |-> IF r.raised.has THEN Append(r.sent, predictCatch(env, r.raised.v))
                  ELSE r.sent]

\* The middleware hands a parsed request body to the router.
RequestArrives(body) ==
    /\ srv.phase = "idle"
    /\ srv' = [srv EXCEPT !.phase = "handling", !.req = body,
                          !.calls = <<>>, !.sent = <<>>]
    /\ UNCHANGED <<state, dom, cyc, nStarted, now, world, storage, passes, budget, cal, inits, timers>>

\* The handler runs from its first line to its response.
PostPredict(how) ==
    /\ srv.phase = "handling"
    /\ LET r == predict(srv.req, how, srv.env, now)
       IN  srv' = [srv EXCEPT !.phase = "idle", !.calls = r.calls, !.sent = r.sent]
    /\ UNCHANGED <<state, dom, cyc, nStarted, now, world, storage, passes, budget, cal, inits, timers>>

\* The request bodies of the server runs.
Bodies ==
    [ game : {Undefined, Text("Daily539"), Text("Lotto649"), Text("Star3"),
              Text("Keno"), Text("constructor")},
      school : {Undefined, Text("wuxing")} \cup {Text(x) : x \in SCHOOLS},
      mode : {Undefined, Text("single"), Text("random"), Text("pack_1"), Text("repack"),
              Numeric(1)},
      historyData : {None, Some(<<Rec(1, 2, DrawA, DrawA, 0)>>)},
      subMode : {Undefined}, userData : {Undefined},
      excludeNumbers : {None}, setIndex : {Undefined}, seed : {Undefined} ]
    \cup
    [ game : {Text("Daily539"), Text("Keno")},
      school : {Text("balance"), Text("ai")},
      mode : {Text("single"), Text("random"), Text("pack_1"), Text("repack")},
      historyData : {None},
      subMode : {Text("zone")}, userData : {Text("profile")},
      excludeNumbers : {Some(<<7, 12>>)}, setIndex : {Numeric(0), Numeric(2)},
      seed : {Numeric(42)} ]

NodeEnvs == {"production", "development"}

NextDispatch ==
    \/ \E body \in Bodies : RequestArrives(body)
    \/ \E how \in StrategyBehaviours : PostPredict(how)

InitDispatch ==
    /\ AppInit({CHOOSE b \in AppBases : TRUE}, AppZips, {None},
               {CHOOSE l \in AppLives : TRUE}, {0})
    /\ srv \in {ServerStart(env) : env \in NodeEnvs}
    /\ cal = CalendarStart

SpecDispatch == InitDispatch /\ [][NextDispatch]_vars

----------------------------------------------------------------------------
(* Vocabulary of the properties *)

PeriodsIn(s) == {s[i].period : i \in DOMAIN s}

\* The batches a pass was given, lowest precedence first: baseline, archive
\* batches, local cache, live feed.
InputsOf(e) ==
    <<e.base>> \o e.zips
        \o (IF e.cache.has THEN <<e.cache.v>> ELSE <<>>)
        \o (IF e.live.has THEN <<e.live.v>> ELSE <<>>)

InputGames(e) == UNION {DOMAIN InputsOf(e)[n] : n \in DOMAIN InputsOf(e)}

InputPeriods(e, g) == UNION {PeriodsIn(Get(InputsOf(e)[n], g)) : n \in DOMAIN InputsOf(e)}

Suppliers(e, g, p) == {n \in DOMAIN InputsOf(e) : p \in PeriodsIn(Get(InputsOf(e)[n], g))}

\* The record of (g, p) in the highest-precedence input that supplies it.
WinningRecord(e, g, p) ==
    LET top == MaxOf(Suppliers(e, g, p))
        batch == InputsOf(e)[top][g]
        at == MaxOf({i \in DOMAIN batch : batch[i].period = p})
    IN  batch[at]

AllDone == \A i \in 1..MaxCycles : i <= nStarted => cyc[i].pc = "done"

\* A step in which an initFetch invocation runs to its end.
CycleEnds == \E i \in 1..MaxCycles : cyc[i].pc # "done" /\ cyc'[i].pc = "done"

\* A step that installs a refresh pass.
RefreshInstalled ==
    /\ Len(passes') = Len(passes) + 1
    /\ passes'[Len(passes')].kind = "refresh"

----------------------------------------------------------------------------
(* C1. Precedence: in the Timeline a merge pass installs, the record of a   *)
(* (game, period) that more than one input batch supplies is the whole      *)
(* record, normalised, of the highest-precedence input supplying it         *)
(* (baseline < archive batches < local cache < live feed).                  *)
C1_Precedence ==
    \A k \in DOMAIN passes :
        LET e == passes[k]
        IN  \A g \in InputGames(e) : \A p \in InputPeriods(e, g) :
                Cardinality(Suppliers(e, g, p)) > 1 =>
                    /\ g \in DOMAIN e.tl
                    /\ \E i \in DOMAIN e.tl[g] :
                          e.tl[g][i] = NormalizeItem(g, WinningRecord(e, g, p))

\* An archive batch and the live feed supply the same period with different
\* numbers, and the installed record carries the live feed's numbers.
C1_Witness ==
    \E k \in DOMAIN passes :
        LET e == passes[k]
        IN  /\ e.kind = "refresh"
            /\ "Daily539" \in DOMAIN e.zips[1]
            /\ \E a \in Range(e.zips[1]["Daily539"]), l \in Range(e.live.v["Daily539"]) :
                  /\ a.period = l.period
                  /\ a.numbers # l.numbers
                  /\ \E r \in Range(e.tl["Daily539"]) :
                        /\ r.period = l.period
                        /\ r.numbers = clean(l.numbers, 1)
                        /\ r.numbers # clean(a.numbers, 1)

(* C2. Dedup: the Timeline a merge pass installs holds, for every game of   *)
(* the inputs, exactly one record per distinct period of the inputs.        *)
C2_Dedup ==
    \A k \in DOMAIN passes :
        LET e == passes[k]
        IN  /\ DOMAIN e.tl = InputGames(e)
            /\ \A g \in DOMAIN e.tl :
                  /\ PeriodsIn(e.tl[g]) = InputPeriods(e, g)
                  /\ Len(e.tl[g]) = Cardinality(InputPeriods(e, g))

\* A pass whose inputs hold two distinct periods of a game, one of them twice.
C2_Witness ==
    \E k \in DOMAIN passes :
        LET e == passes[k]
        IN  /\ Cardinality(InputPeriods(e, "Daily539")) = 2
            /\ \E p \in InputPeriods(e, "Daily539") :
                  Cardinality(Suppliers(e, "Daily539", p)) > 1
            /\ Len(e.tl["Daily539"]) = 2

(* C3. Within one cycle the refresh pass dominates the initial pass: every  *)
(* (game, period) of the Timeline the initial pass installed is still in    *)
(* the Timeline the refresh pass installs.                                  *)
C3_RefreshDominates ==
    \A a, b \in DOMAIN passes :
        (passes[a].cycle = passes[b].cycle
            /\ passes[a].kind = "initial" /\ passes[b].kind = "refresh") =>
        \A g \in DOMAIN passes[a].tl :
            PeriodsIn(passes[a].tl[g]) \subseteq PeriodsIn(Get(passes[b].tl, g))

(* C4. Passes are never installed out of order: no pass of an earlier       *)
(* started cycle follows a pass of a later started one, within a cycle the  *)
(* initial pass precedes the refresh pass, and once every cycle has ended   *)
(* the Timeline is the one the latest cycle's last pass installed.          *)
C4_PassesInOrder ==
    /\ \A a, b \in DOMAIN passes :
          a < b =>
            /\ passes[a].cycle <= passes[b].cycle
            /\ passes[a].cycle = passes[b].cycle =>
                  passes[a].kind = "initial" /\ passes[b].kind = "refresh"
    /\ (AllDone /\ passes # <<>>) =>
          LET latest == MaxOf({passes[k].cycle : k \in DOMAIN passes})
              last == MaxOf({k \in DOMAIN passes : passes[k].cycle = latest})
          IN  state.rawData = passes[last].tl

(* C5. Readers never observe a partially merged state: what a dashboard     *)
(* update shows for the selected game (its Timeline and its jackpot) is the *)
(* output of one finished pass, or nothing while no pass has finished.      *)
C5_ReadersSeeOnePass ==
    dom.dash.game # "" =>
        \/ dom.dash.data = <<>> /\ dom.dash.jackpot = 0
        \/ \E k \in DOMAIN passes :
              /\ dom.dash.data = Get(passes[k].tl, dom.dash.game)
              /\ dom.dash.jackpot = (IF dom.dash.game \in DOMAIN passes[k].jp
                                     THEN passes[k].jp[dom.dash.game] ELSE 0)

(* C6. Range invariant: every value of numbers of every record of the       *)
(* installed Timeline lies within [min, gameDef.range], min being 0 for     *)
(* digit games and 1 otherwise.                                             *)
C6_RangeInvariant ==
    \A g \in DOMAIN state.rawData : \A i \in DOMAIN state.rawData[g] :
        \A n \in Range(state.rawData[g][i].numbers) :
            g \in GameNames /\ minValid(g) <= n /\ n <= GAMES[g].range

\* The live records of game g with a positive jackpot.
Positive(live, g) == {i \in DOMAIN live[g] : live[g][i].jackpot > 0}

\* The newest live record of game g: the first, in batch order, of those
\* that carry the maximum date.
NewestLive(live, g) ==
    LET top == MaxOf({live[g][i].date : i \in DOMAIN live[g]})
    IN  live[g][CHOOSE i \in DOMAIN live[g] :
                    /\ live[g][i].date = top
                    /\ \A j \in DOMAIN live[g] : live[g][j].date = top => i <= j]

JackpotOf(table, g) == IF g \in DOMAIN table THEN table[g] ELSE 0

SameInputs(a, b) ==
    /\ a.base = b.base
    /\ a.zips = b.zips
    /\ a.cache = b.cache
    /\ a.live = b.live

C9_NewestFirst ==
    \A g \in DOMAIN state.rawData :
        LET tl == state.rawData[g]
        IN  /\ \A i, j \in DOMAIN tl :
                  i < j => \/ tl[i].date > tl[j].date
                           \/ tl[i].date = tl[j].date /\ tl[i].period > tl[j].period
            /\ \A i \in DOMAIN tl : tl[i].date <= tl[1].date

\* A Timeline of two records of different dates, and one of two records that
\* tie on the date, have been installed.
C9_Witness ==
    /\ \E k \in DOMAIN passes :
          /\ "Daily539" \in DOMAIN passes[k].tl
          /\ Len(passes[k].tl["Daily539"]) = 2
          /\ passes[k].tl["Daily539"][1].date > passes[k].tl["Daily539"][2].date
    /\ "Daily539" \in DOMAIN state.rawData
    /\ Len(Get(state.rawData, "Daily539")) = 2
    /\ state.rawData["Daily539"][1].date = state.rawData["Daily539"][2].date
    /\ state.rawData["Daily539"][1].period > state.rawData["Daily539"][2].period

\* Every date of every record of every game.
AllDates(rd) == UNION {{rd[g][i].date : i \in DOMAIN rd[g]} : g \in DOMAIN rd}

(* C10. Freshness classification: the evaluator reports success exactly     *)
(* when some record exists and some game's newest record is dated at or     *)
(* after now - 3 days; otherwise it reports error with the maximum date     *)
(* over all games, or the no-data marker when there is no record.           *)
C10_Freshness ==
    [][CycleEnds =>
        LET dates == AllDates(state'.rawData)
        IN  IF dates # {} /\ MaxOf(dates) >= now' - FRESH_DAYS * DAY_MS
            THEN dom'.status = "success"
            ELSE /\ dom'.status = "error"
                 /\ dom'.dateStr = (IF dates = {} THEN NoDate ELSE MaxOf(dates))]_vars

\* At midnight of day 5 a cycle has ended over a Timeline whose newest
\* record is dated exactly 2 days before: success.
C10_Witness ==
    /\ now = StartDay * DAY_MS
    /\ cyc[1].pc = "done"
    /\ AllDates(state.rawData) # {}
    /\ MaxOf(AllDates(state.rawData)) = now - 2 * DAY_MS
    /\ dom.status = "success"

----------------------------------------------------------------------------
(* The prediction panel of the front end: App.runPrediction renders the     *)
(* strategy's selection, a candidate pool in the first phase of a pack;     *)
(* clicking a candidate row expands it (App.handleCandidateClick).          *)

MaxPool == 7

\* A result object as renderRow and the expansion take it.
Result(numbers, isCandidate) ==
    [numbers |-> numbers, metadata |-> [isCandidate |-> isCandidate]]

\* PredictionEngine.expandPack: every ticket of count numbers drawable from
\* the candidate pool, in the pool's order; none when the pool is too small.
RECURSIVE Combinations(_, _)
Combinations(pool, c) ==
    IF c = 0 THEN << <<>> >>
    ELSE IF Len(pool) < c THEN <<>>
    ELSE LET with == Combinations(Tail(pool), c - 1)
         IN  [i \in DOMAIN with |-> <<Head(pool)>> \o with[i]]
                 \o Combinations(Tail(pool), c)

\* Mutant: only the runs of count neighbouring numbers of the pool.
expandPack_Runs(numbers, gameDef) ==
    [i \in 1..(IF Len(numbers) < gameDef.count THEN 0
                ELSE Len(numbers) - gameDef.count + 1) |->
        Result(SubSeq(numbers, i, i + gameDef.count - 1), FALSE)]

expandPack(numbers, gameDef) ==
    LET tickets == Combinations(numbers, gameDef.count)
    IN  [i \in DOMAIN tickets |-> Result(tickets[i], FALSE)]

\* App.renderRow: one more row in the prediction output; a candidate row
\* carries the click handler with its numbers.
renderRow(output, resultObj, index, label) ==
    Append(output,
           [ kind |-> "row", label |-> label, index |-> index,
             numbers |-> resultObj.numbers,
             onclick |-> IF resultObj.metadata.isCandidate
                         THEN Some(resultObj.numbers) ELSE None ])

\* The banner above an expanded pack.
PackHeader(n) ==
    [kind |-> "header", label |-> "pack result", index |-> n, numbers |-> <<>>,
     onclick |-> None]

RECURSIVE RenderTickets(_, _, _)
RenderTickets(output, tickets, idx) ==
    IF idx > Len(tickets) THEN output
    ELSE RenderTickets(renderRow(output, tickets[idx], idx, "pack ticket"),
                       tickets, idx + 1)

\* Mutant: the output is replaced also when the expansion is empty.
handleCandidateClick_Always(S, numbers) ==
    LET expandedTickets == expandPack(numbers, GAMES[S.state.currentGame])
    IN  [S EXCEPT !.dom.output =
            RenderTickets(<<PackHeader(Len(expandedTickets))>>, expandedTickets, 1)]

\* App.handleCandidateClick
handleCandidateClick(S, numbers) ==
    LET gameDef == GAMES[S.state.currentGame]
        expandedTickets == expandPack(numbers, gameDef)
    IN  IF Len(expandedTickets) > 0
        THEN [S EXCEPT !.dom.output =
                RenderTickets(<<PackHeader(Len(expandedTickets))>>, expandedTickets, 1)]
        ELSE S

\* The candidate pools a strategy may hand out: n numbers, tagged.
CandidatePools ==
    {[i \in 1..n |-> [val |-> 3 * i, tag |-> "cand"]] : n \in 3..MaxPool}

\* App.runPrediction in the first phase of a pack: the output is redrawn
\* with the candidate selection of the strategy.
RunPrediction(pool) ==
    /\ state.currentGame # ""
    /\ dom' = [dom EXCEPT !.output = renderRow(<<>>, Result(pool, TRUE), 1, "SET")]
    /\ UNCHANGED <<state, cyc, nStarted, now, world, storage, passes, budget, srv, cal, inits, timers>>

\* The onclick of row r of the prediction output.
CandidateClick(r) ==
    /\ r \in DOMAIN dom.output
    /\ dom.output[r].onclick.has
    /\ LET S1 == handleCandidateClick(Cur, dom.output[r].onclick.v)
       IN  /\ state' = S1.state
           /\ dom' = S1.dom
    /\ UNCHANGED <<cyc, nStarted, now, world, storage, passes, budget, srv, cal, inits, timers>>

NextPanel ==
    \/ Next
    \/ \E pool \in CandidatePools : RunPrediction(pool)
    \/ \E r \in DOMAIN dom.output : CandidateClick(r)

InitPanel ==
    InitWith({CHOOSE b \in AppBases : b.jackpots.has}, AppZips, {None},
             {CHOOSE l \in AppLives : TRUE}, {1})

SpecPanel == InitPanel /\ [][NextPanel]_vars

----------------------------------------------------------------------------
(* The validation script: validateNumberRange, validateNoDuplicates and the *)
(* single-zone branch of validateOutput.  Each returns the set of errors it *)
(* finds, an error being its kind and the index it is about.                *)

\* typeof num === 'number' && Number.isInteger(num)
IsInteger(num) == num.t = "number"

validateNumberRange(numbers, min, max) ==
    {<<"not an integer", i>> : i \in {j \in DOMAIN numbers : ~IsInteger(numbers[j])}}
    \cup {<<"out of range", i>> :
            i \in {j \in DOMAIN numbers :
                      IsInteger(numbers[j]) /\ (numbers[j].n < min \/ numbers[j].n > max)}}

\* new Set(numbers).size !== numbers.length
validateNoDuplicates(numbers) ==
    IF Cardinality(Range(numbers)) # Len(numbers) THEN {<<"duplicates", 0>>} ELSE {}

validateOutput(result, expected) ==
    IF "numbers" \notin DOMAIN result THEN {<<"no numbers field", 0>>}
    ELSE (IF Len(result.numbers) # expected.numbersCount
          THEN {<<"wrong count", Len(result.numbers)>>} ELSE {})
         \cup validateNumberRange(result.numbers, expected.range.min, expected.range.max)
         \cup validateNoDuplicates(result.numbers)

----------------------------------------------------------------------------
(* Vocabulary of the dispatcher's properties *)

\* The request in srv.req has been answered.
Answered == srv.phase = "idle" /\ srv.sent # <<>>

Response == srv.sent[1]

Invoked == srv.calls # <<>>

\* What the invoked strategy returned.
Returned == srv.calls[1].returned

\* A request the validation is to refuse: a required field is missing, the
\* game is not a key of the registry, or the school is not a registered one.
InvalidRequest(req) ==
    \/ req.game = Undefined \/ req.school = Undefined \/ req.mode = Undefined
    \/ ~(req.game.t = "string" /\ req.game.s \in GameNames)
    \/ ~(req.school.t = "string" /\ req.school.s \in SCHOOLS)

RequestKeys == {"game", "school", "mode"}

StampKeys == {"timestamp", "version"}

(* C11. Dispatcher validation: a request with game, school or mode missing, *)
(* with a game that is not a key of the registry, or with a school outside  *)
(* the four registered ones is answered with a 400 response and no strategy *)
(* is invoked for it; it is never answered with the 500 failure response.   *)
C11_InvalidRefused ==
    (Answered /\ InvalidRequest(srv.req)) =>
        /\ Len(srv.sent) = 1
        /\ Response.status = 400
        /\ ~Invoked

(* C12. Shape contract: when the strategy returns a sequence the response   *)
(* has a tickets field of the sequence's length and metadata.count equal to *)
(* that length; when it returns a single object the response has no tickets *)
(* field.                                                                   *)
C12_ShapeContract ==
    (Answered /\ Invoked) =>
        /\ Returned.k = "array" =>
              /\ "tickets" \in DOMAIN Response.body
              /\ Len(Response.body.tickets) = Len(Returned.items)
              /\ Response.body.metadata.count = Numeric(Len(Returned.items))
        /\ Returned.k = "object" => "tickets" \notin DOMAIN Response.body

(* C13. Every success response, pack or single, whatever the strategy       *)
(* returned, carries success = true and a metadata block whose game, school *)
(* and mode are the request's, with a timestamp and the version tag.        *)
C13_SuccessEnvelope ==
    (Answered /\ Response.status = 200) =>
        /\ Response.body.success = TRUE
        /\ Response.body.metadata.game = srv.req.game
        /\ Response.body.metadata.school = srv.req.school
        /\ Response.body.metadata.mode = srv.req.mode
        /\ Response.body.metadata.timestamp = toISOString(now)
        /\ Response.body.metadata.version = Text(VERSION)

\* The strategy's own metadata (none: no keys).
OwnOf(o) == IF "metadata" \in DOMAIN o THEN o.metadata ELSE EmptyObj

(* C14, as claimed. In a single-selection response the strategy's own value *)
(* wins for every metadata key it shares with the request-derived metadata  *)
(* (game, school, mode); only timestamp and version are the dispatcher's.   *)
C14_OwnKeysWin ==
    (Answered /\ Invoked /\ Response.status = 200 /\ Returned.k = "object") =>
        /\ \A k \in DOMAIN OwnOf(Returned.o) \cap RequestKeys :
              Response.body.metadata[k] = OwnOf(Returned.o)[k]
        /\ Response.body.metadata.timestamp = toISOString(now)
        /\ Response.body.metadata.version = Text(VERSION)

(* C14, amended. In a single-selection response game, school and mode are   *)
(* the request's and timestamp and version the dispatcher's, whatever the   *)
(* strategy's own metadata holds under these keys; every other key of the   *)
(* strategy's own metadata keeps the strategy's value.                      *)
C14_RequestKeysWin ==
    (Answered /\ Invoked /\ Response.status = 200 /\ Returned.k = "object") =>
        LET own == OwnOf(Returned.o)
            md == Response.body.metadata
        IN  /\ DOMAIN md = DOMAIN own \cup RequestKeys \cup StampKeys
            /\ md.game = srv.req.game
            /\ md.school = srv.req.school
            /\ md.mode = srv.req.mode
            /\ md.timestamp = toISOString(now)
            /\ md.version = Text(VERSION)
            /\ \A k \in DOMAIN own \ (RequestKeys \cup StampKeys) : md[k] = own[k]

\* A strategy's metadata names another game and a key of its own: the
\* response names the request's game and keeps the strategy's other key.
C14_Witness ==
    /\ Answered /\ Invoked /\ Response.status = 200 /\ Returned.k = "object"
    /\ "game" \in DOMAIN OwnOf(Returned.o)
    /\ OwnOf(Returned.o).game # srv.req.game
    /\ Response.body.metadata.game = srv.req.game
    /\ Response.body.metadata.source = OwnOf(Returned.o).source

(* C15. Strategy failure: when the invoked strategy raises, or returns a    *)
(* value the response shaping cannot handle, the request is answered by     *)
(* exactly one response, the 500 failure with success = false and the       *)
(* generic error; in production its content is the same fixed text whatever *)
(* the error was.                                                           *)
C15_FailureGeneric ==
    (Answered /\ Invoked /\ Returned.k \in {"throw", "null"}) =>
        /\ Len(srv.sent) = 1
        /\ Response.status = 500
        /\ Response.body.success = FALSE
        /\ Response.body.error = ERR_PREDICT
        /\ srv.env = "production" =>
              Response.body = [success |-> FALSE, error |-> ERR_PREDICT,
                               message |-> MSG_SERVER]

\* In production a strategy has raised and the answer is the fixed text.
C15_Witness ==
    /\ Answered /\ Invoked
    /\ srv.env = "production"
    /\ Returned = Thrown("E2")
    /\ Response.status = 500
    /\ Response.body.message = MSG_SERVER

(* C16. Pack expansion sufficiency: clicking a candidate pool of fewer     *)
(* numbers than the current game's count raises nothing and leaves the      *)
(* prediction output as it was (the expansion is empty); clicking a pool of *)
(* exactly count numbers shows exactly one ticket, whose numbers are the    *)
(* pool.                                                                    *)
C16_ExpansionSufficiency ==
    [][\A r \in DOMAIN dom.output :
        CandidateClick(r) =>
            LET pool == dom.output[r].onclick.v
                count == GAMES[state.currentGame].count
            IN  /\ Len(pool) < count =>
                      /\ expandPack(pool, GAMES[state.currentGame]) = <<>>
                      /\ dom'.output = dom.output
                /\ Len(pool) = count =>
                      /\ Len(expandPack(pool, GAMES[state.currentGame])) = 1
                      /\ Len(dom'.output) = 2
                      /\ dom'.output[1] = PackHeader(1)
                      /\ dom'.output[2].numbers = pool]_vars

\* A pool of exactly count numbers has been expanded into its one ticket.
C16_Witness ==
    /\ state.currentGame = "Daily539"
    /\ Len(dom.output) = 2
    /\ dom.output[1] = PackHeader(1)
    /\ Len(dom.output[2].numbers) = GAMES["Daily539"].count
    /\ dom.output[2].numbers \in CandidatePools

\* What the validation script expects of a selection of single-zone game g.
Expected(g) ==
    [numbersCount |-> GAMES[g].count,
     range |-> [min |-> minValid(g), max |-> GAMES[g].range]]

\* The response with every tagged number replaced by its value.
Picks(body) ==
    [k \in DOMAIN body |->
        IF k = "numbers" THEN [i \in DOMAIN body[k] |-> Numeric(body[k][i].val)]
        ELSE body[k]]

\* The request names a single-zone game and asks for a single selection.
SingleZoneSingle(req) ==
    /\ req.mode = Text("single")
    /\ req.game.t = "string"
    /\ req.game.s \in GameNames
    /\ GAMES[req.game.s].type = "lotto"

----------------------------------------------------------------------------
(* Hot-number ranking *)

\* The three windows of the dashboard and what was drawn for each.
HotWindows ==
    << [stat |-> dom.dash.statYear,   window |-> dom.dash.data],
       [stat |-> dom.dash.statMonth,  window |-> Slice(dom.dash.data, STAT_MONTH)],
       [stat |-> dom.dash.statRecent, window |-> Slice(dom.dash.data, STAT_RECENT)] >>

\* How often v occurs in the as-drawn numbers of the window, and in how many
\* of its records.
Occurrences(window, v) ==
    Cardinality({ik \in UNION {{<<i, k>> : k \in DOMAIN window[i].numbers} :
                                  i \in DOMAIN window} :
                    window[ik[1]].numbers[ik[2]] = v})

RecordsWith(window, v) ==
    Cardinality({i \in DOMAIN window : v \in Range(window[i].numbers)})

Returned_(top) == {top[i].n : i \in DOMAIN top}

\* a is returned, and before b if b is returned too.
RanksAbove(top, a, b) ==
    \E i \in DOMAIN top :
        /\ top[i].n = a
        /\ \A j \in DOMAIN top : top[j].n = b => i < j

\* At most five pairs, each count the occurrences of its value, counts
\* non-increasing, and nothing left out that occurs more often.
HotPairs(w) ==
    /\ ~w.stat.noData
    /\ Len(w.stat.top) <= 5
    /\ \A i \in DOMAIN w.stat.top :
          /\ w.stat.top[i].n \in Drawn(w.window)
          /\ w.stat.top[i].c = Occurrences(w.window, w.stat.top[i].n)
          /\ \A j \in DOMAIN w.stat.top :
                i < j => w.stat.top[i].c >= w.stat.top[j].c /\ w.stat.top[i].n # w.stat.top[j].n
          /\ \A v \in Drawn(w.window) \ Returned_(w.stat.top) :
                Occurrences(w.window, v) <= w.stat.top[i].c

Rendered == dom.dash.game # ""

(* C17, as stated. Hot-number ranking: for any non-empty window the panel   *)
(* shows at most 5 (value, count) pairs, each count being the number of     *)
(* occurrences of the value in the as-drawn numbers of the window, in       *)
(* non-increasing count order, no omitted value has a count greater than a  *)
(* returned one, and a number appearing in 2 records ranks above one        *)
(* appearing in 1.                                                          *)
C17_HotRankingByRecords ==
    Rendered =>
        \A x \in DOMAIN HotWindows :
            LET w == HotWindows[x]
            IN  w.window # <<>> =>
                  /\ HotPairs(w)
                  /\ \A a, b \in Drawn(w.window) :
                        /\ RecordsWith(w.window, a) = 2
                        /\ RecordsWith(w.window, b) = 1
                        /\ {a, b} \cap Returned_(w.stat.top) # {}
                        => RanksAbove(w.stat.top, a, b)

(* C17, amended. Hot-number ranking: for any non-empty window the panel     *)
(* shows at most 5 (value, count) pairs, each count being the number of     *)
(* occurrences of the value in the as-drawn numbers of the window, in       *)
(* non-increasing count order, no omitted value has a count greater than a  *)
(* returned one, and a number that occurs more often than another ranks     *)
(* above it; an empty window shows the no-data marker and no pair.          *)
C17_HotRankingByCount ==
    Rendered =>
        \A x \in DOMAIN HotWindows :
            LET w == HotWindows[x]
            IN  IF w.window = <<>>
                THEN w.stat.noData /\ w.stat.top = <<>>
                ELSE /\ HotPairs(w)
                     /\ \A a, b \in Drawn(w.window) :
                           /\ Occurrences(w.window, a) > Occurrences(w.window, b)
                           /\ {a, b} \cap Returned_(w.stat.top) # {}
                           => RanksAbove(w.stat.top, a, b)

\* The digit game is shown with more draws than the shortest window holds:
\* the digit repeated inside the latest draw leads with its three
\* occurrences, ahead of a digit drawn in more records, five pairs are shown
\* and some drawn digit is left out.
C17_Witness ==
    /\ Rendered
    /\ Len(dom.dash.data) > STAT_RECENT
    /\ dom.dash.statRecent # dom.dash.statYear
    /\ Len(dom.dash.statRecent.top) = HOT_TOP
    /\ Drawn(Slice(dom.dash.data, STAT_RECENT)) \ Returned_(dom.dash.statRecent.top) # {}
    /\ \E a, b \in Returned_(dom.dash.statRecent.top) :
          /\ RecordsWith(Slice(dom.dash.data, STAT_RECENT), a)
                < RecordsWith(Slice(dom.dash.data, STAT_RECENT), b)
          /\ RanksAbove(dom.dash.statRecent.top, a, b)

----------------------------------------------------------------------------
(* Failures of the feeds *)

\* The archives of the world that the pass e did not get.
FailedArchives(e) == {k \in DOMAIN world.zips : e.zips[k] = EmptyObj /\ world.zips[k] # EmptyObj}

\* The periods of game g that the baseline, the archives that arrived and
\* the cache of the pass e hold.
RemainingPeriods(e, g) ==
    PeriodsIn(Get(e.base, g))
        \cup UNION {PeriodsIn(Get(world.zips[k], g)) : k \in DOMAIN world.zips \ FailedArchives(e)}
        \cup PeriodsIn(Get(e.cache.v, g))

LastPass == passes[Len(passes)]

(* C19. Archive failure isolation: when the archive fetches of a cycle      *)
(* settle, whichever of them failed, each failed batch contributes nothing, *)
(* the failure is not propagated (the cycle goes on to the live fetch) and  *)
(* the initial pass installs a Timeline holding exactly the periods of the  *)
(* baseline, the remaining archive batches and the cache.                   *)
C19_ArchiveIsolation ==
    [][\A i \in 1..MaxCycles :
          cyc[i].pc = "zips" /\ cyc'[i].pc # "zips" =>
              /\ cyc'[i].pc = "live"
              /\ Len(passes') = Len(passes) + 1
              /\ LastPass'.cycle = i /\ LastPass'.kind = "initial"
              /\ Len(LastPass'.zips) = NumZips
              /\ \A k \in 1..NumZips : LastPass'.zips[k] \in {world.zips[k], EmptyObj}
              /\ LastPass'.base = cyc[i].baseData
              /\ LastPass'.cache = Some(LocalCacheData)
              /\ state'.rawData = LastPass'.tl
              /\ \A g \in GameNames :
                    PeriodsIn(Get(state'.rawData, g)) = RemainingPeriods(LastPass', g)]_vars

\* The first archive failed and the second arrived: the cycle waits for the
\* live feed, and the Timeline holds the baseline's period and the second
\* archive's, and not the period only the first archive knows.
C19_Witness ==
    /\ passes # <<>>
    /\ LastPass.kind = "initial"
    /\ cyc[LastPass.cycle].pc = "live"
    /\ FailedArchives(LastPass) = {1}
    /\ LastPass.base # EmptyObj
    /\ PeriodsIn(Get(state.rawData, "Daily539")) \cap {1, 4, 5} = {1, 5}

\* The passes that cycle i has installed.
PassesOf(i) == {n \in DOMAIN passes : passes[n].cycle = i}

(* C20. Baseline and live failures are absorbed: a cycle whose baseline     *)
(* fetch failed still merges and installs the archives and the local cache  *)
(* over an empty baseline, a cycle whose live fetch failed ends with an     *)
(* empty live contribution, and no reconciliation cycle ends before a merge *)
(* pass of it has run.                                                      *)
C20_FailuresAbsorbed ==
    \A i \in 1..MaxCycles :
        cyc[i].pc = "done" =>
            \E n \in PassesOf(i) :
                /\ passes[n].kind = "initial"
                /\ passes[n].base \in {EmptyObj, world.base.games}
                /\ passes[n].cache.has

----------------------------------------------------------------------------
(* Cooldown *)

InCooldown == now - state.lastInitFetchTime < COOLDOWN_MS

\* A step of a cycle in flight, of a game button or of the clock.
OtherStep == cyc' # cyc \/ state'.currentGame # state.currentGame \/ now' # now

(* C21. Cooldown: a trigger arriving less than 5000 ms after the last       *)
(* accepted trigger starts no cycle (no fetch) and leaves Timeline,         *)
(* JackpotTable, caches, status and the cooldown timestamp unchanged; a     *)
(* trigger is accepted only 5000 ms or more after the last accepted one,    *)
(* whose time the cooldown timestamp holds.                                 *)
C21_Cooldown ==
    [][/\ nStarted' # nStarted =>
             /\ now - state.lastInitFetchTime >= COOLDOWN_MS
             /\ state'.lastInitFetchTime = now
       /\ InCooldown =>
             /\ nStarted' = nStarted
             /\ state'.lastInitFetchTime = state.lastInitFetchTime
             /\ \A i \in 1..MaxCycles : cyc[i].pc = "idle" => cyc'[i].pc = "idle"
             /\ ~OtherStep => UNCHANGED <<state, dom, storage, passes>>]_vars

\* Two triggers were accepted, and one arriving now would be skipped.
C21_Witness ==
    /\ nStarted = 2
    /\ InCooldown
    /\ state.lastInitFetchTime >= StartDay * DAY_MS + COOLDOWN_MS

----------------------------------------------------------------------------
(* Local cache *)

RefreshInstalledNow == Len(passes') > Len(passes) /\ LastPass'.kind = "refresh"

InitialInstalledNow == Len(passes') > Len(passes) /\ LastPass'.kind = "initial"

\* The persisted cache changes only in the step that installs a refresh
\* pass, to the live batch of that pass, which has keys; whether or not the
\* write succeeds, the Timeline is that of the pass and the cycle is over.
CacheWrittenAfterRefresh ==
    /\ storage' # storage => RefreshInstalledNow
    /\ RefreshInstalledNow =>
          /\ LastPass'.live.has /\ DOMAIN LastPass'.live.v # {}
          /\ LastPass'.live.v = SortLive(world.live)
          /\ storage' \in {storage, Some(LastPass'.live.v)}
          /\ state'.rawData = LastPass'.tl
          /\ cyc[LastPass'.cycle].pc = "live" /\ cyc'[LastPass'.cycle].pc = "done"

\* Every initial pass merges the cache content that the first one read.
CacheReadOnce ==
    InitialInstalledNow =>
        \A n \in DOMAIN passes :
            passes[n].kind = "initial" => LastPass'.cache = passes[n].cache

(* C22. Local cache policy: the persisted cache is written only after the   *)
(* refresh-pass Timeline of a cycle has been installed, its new content is  *)
(* exactly that cycle's live batch, it is never written in a cycle whose    *)
(* live batch is absent, empty or failed, a failing cache write leaves the  *)
(* installed Timeline and the cycle's outcome unchanged, and the cache is   *)
(* read once at startup: every initial pass merges the content read then.   *)
C22_CachePolicy == [][CacheWrittenAfterRefresh /\ CacheReadOnce]_vars

----------------------------------------------------------------------------
(* Jackpot sources *)

\* The jackpot figures that the live-batch records of game g carry.
LiveFigures(g) == {world.live[g][i].jackpot : i \in DOMAIN Get(world.live, g)}

(* C23. Jackpot source restriction: whenever the JackpotTable entry of a    *)
(* game is set, replaced or reset, the step installs a refresh pass and the *)
(* new value is the positive jackpot of a live-batch record of the game;    *)
(* figures of the baseline feed or of archive batches never change an       *)
(* entry, in any pass of any cycle.                                         *)
C23_JackpotFromLiveOnly ==
    [][\A g \in GameNames :
          JackpotOf(state'.rawJackpots, g) # JackpotOf(state.rawJackpots, g) =>
              /\ RefreshInstalledNow
              /\ JackpotOf(state'.rawJackpots, g) > 0
              /\ JackpotOf(state'.rawJackpots, g) \in LiveFigures(g)]_vars

----------------------------------------------------------------------------
(* Retrying the archives *)

(* C24. Archive retry: an archive batch whose fetch failed in one cycle is  *)
(* fetched again by the next accepted cycle: a cycle installs its initial   *)
(* pass without having fetched the archives only when none of the archives  *)
(* it merges is a failed one.                                               *)
C24_ArchiveRetried ==
    [][InitialInstalledNow /\ cyc[LastPass'.cycle].pc # "zips" =>
          FailedArchives(LastPass') = {}]_vars

----------------------------------------------------------------------------
(* Next scheduled draw *)

\* The draw days not before the weekday w.
FromToday(w) == {d \in Range(cal.drawDays) : d >= w}

Least(days) == CHOOSE d \in days : \A e \in days : d <= e

(* C25. Next scheduled draw date: for a non-empty drawDays set and today's  *)
(* weekday w, the result is the date of the smallest weekday d >= w in the  *)
(* set (today itself when w is a draw day), and when no such d exists the   *)
(* first weekday of the set in the following week; an empty drawDays yields *)
(* the unscheduled sentinel instead of a date.                              *)
C25_NextDrawDate ==
    cal.asked =>
        LET w == getDay(cal.today)
        IN  IF cal.drawDays = <<>> THEN cal.shown = Unscheduled
            ELSE /\ cal.shown.set
                 /\ cal.shown.date =
                        (IF FromToday(w) # {}
                         THEN cal.today + (Least(FromToday(w)) - w)
                         ELSE cal.today + (7 - w) + Least(Range(cal.drawDays)))
                 /\ cal.shown.week = getDay(cal.shown.date)

----------------------------------------------------------------------------
(* Normalisation *)

\* The elements of a feed's array that coerce to an integer not below min,
\* as the integers they coerce to, in the order of the array.
RECURSIVE IntegersOf(_, _)
IntegersOf(items, min) ==
    IF items = <<>> THEN <<>>
    ELSE (IF Head(items).t \in {"num", "str"} /\ Head(items).v >= min
          THEN <<Head(items).v>> ELSE <<>>) \o IntegersOf(Tail(items), min)

\* What the rules make of the field arr of a record of game g.
Normalized(g, arr) ==
    LET digit == g \in GameNames /\ GAMES[g].type = "digit"
        today == g \in GameNames /\ GAMES[g].type = "today"
        kept == IF arr.isArray THEN IntegersOf(arr.items, IF digit THEN 0 ELSE 1) ELSE <<>>
    IN  IF digit THEN SubSeq(kept, 1, IF Len(kept) < GAMES[g].count
                                      THEN Len(kept) ELSE GAMES[g].count)
        ELSE IF today THEN SubSeq(kept, 1, IF Len(kept) < 5 THEN Len(kept) ELSE 5)
        ELSE kept

(* C26. Normalization rules: in every record of an installed Timeline each  *)
(* of numbers and numbers_size is the sequence of the elements of the       *)
(* source record's field that coerce to an integer not below the game's     *)
(* minimum (0 for digit, 1 otherwise), in original order, empty for a       *)
(* missing or non-array field, truncated to count for digit games and to 5  *)
(* for the today type; period and jackpot are carried over unchanged.       *)
C26_Normalization ==
    \A k \in DOMAIN passes :
        LET e == passes[k]
        IN  \A g \in DOMAIN e.tl : \A i \in DOMAIN e.tl[g] :
                LET r == e.tl[g][i]
                IN  /\ r.period \in InputPeriods(e, g)
                    /\ LET w == WinningRecord(e, g, r.period)
                       IN  /\ r.numbers = Normalized(g, w.numbers)
                           /\ r.numbers_size = Normalized(g, w.numbers_size)
                           /\ r.period = w.period
                           /\ r.jackpot = w.jackpot

\* The lengths a record of game g may have: count, and count plus the bonus
\* number for the games that draw one.
ExpectedLengths(g) ==
    IF GAMES[g].type # "digit" /\ (GAMES[g].special \/ GAMES[g].zone2 > 0)
    THEN {GAMES[g].count, GAMES[g].count + 1}
    ELSE {GAMES[g].count}

(* C27. DrawRecord consistency after normalization: in every record of an   *)
(* installed Timeline, numbers and numbers_size contain the same integers   *)
(* as a set, and their lengths equal the game's expected count (count,      *)
(* plus the optional bonus for power/special games; exactly count for digit *)
(* games).                                                                  *)
C27_RecordConsistency ==
    \A g \in DOMAIN state.rawData : \A i \in DOMAIN state.rawData[g] :
        LET r == state.rawData[g][i]
        IN  /\ g \in GameNames
            /\ \A n \in Range(r.numbers) \cup Range(r.numbers_size) : IsWhole(n)
            /\ Range(r.numbers) = Range(r.numbers_size)
            /\ Len(r.numbers) \in ExpectedLengths(g)
            /\ Len(r.numbers_size) \in ExpectedLengths(g)

----------------------------------------------------------------------------
(* Dispatch *)

\* A request that passes validation: the three required fields are strings,
\* the game is a key of the registry and the school is registered.
ValidRequest(req) ==
    /\ req.game.t = "string" /\ req.game.s \in GameNames
    /\ req.school.t = "string" /\ req.school.s \in SCHOOLS
    /\ req.mode.t = "string" /\ req.mode.s # ""

\* The strategy registered for each school.
StrategyOf ==
    [balance |-> "algoBalance", stat |-> "algoStat", pattern |-> "algoPattern",
     ai |-> "algoAI"]

(* C28. Dispatch is a single invocation: for every valid request exactly    *)
(* one strategy, the one registered for the request's school, is invoked    *)
(* exactly once; a failing invocation is not retried and no other strategy  *)
(* is tried in its place: the request is answered with the failure          *)
(* response.                                                                *)
C28_SingleInvocation ==
    (Answered /\ ValidRequest(srv.req)) =>
        /\ Len(srv.calls) = 1
        /\ srv.calls[1].strategy = StrategyOf[srv.req.school.s]
        /\ Returned.k = "throw" => Response.status = 500

\* A valid request whose strategy raised: one invocation and the failure
\* response.
C28_Witness ==
    /\ Answered /\ ValidRequest(srv.req)
    /\ srv.req.school = Text("balance")
    /\ Len(srv.calls) = 1
    /\ Returned.k = "throw"
    /\ Response.status = 500

(* C29. Strategy parameter bundle: for every valid request the strategy     *)
(* receives random = true exactly when mode is 'random', a packMode that is *)
(* set exactly when mode starts with the prefix 'pack', targetCount = 5,    *)
(* the resolved GameDefinition of the requested game, history defaulting to *)
(* the empty sequence, excludeNumbers defaulting to the empty sequence,     *)
(* setIndex defaulting to 0, and the caller's seed and userData unchanged.  *)
C29_ParameterBundle ==
    (Answered /\ ValidRequest(srv.req)) =>
        /\ Invoked
        /\ LET params == srv.calls[1].params
               req == srv.req
           IN  /\ params.random = (req.mode.s = "random")
               /\ (params.packMode # Undefined) <=> (req.mode.s \in PackPrefixed)
               /\ params.packMode # Undefined => params.packMode = req.mode
               /\ params.targetCount = 5
               /\ params.gameDef = [is |-> "def", name |-> req.game.s]
               /\ params.data = (IF req.historyData.has THEN req.historyData.v ELSE <<>>)
               /\ params.excludeNumbers =
                     (IF req.excludeNumbers.has THEN req.excludeNumbers.v ELSE <<>>)
               /\ params.setIndex =
                     (IF req.setIndex = Undefined THEN Numeric(0) ELSE req.setIndex)
               /\ params.seed = req.seed
               /\ params.userData = req.userData

\* A request with seed, userData, exclusions and a set index, in a mode that
\* holds the word pack without starting with it, has reached its strategy.
C29_Witness ==
    /\ Answered /\ ValidRequest(srv.req) /\ Invoked
    /\ srv.req.mode = Text("repack")
    /\ srv.req.seed = Numeric(42) /\ srv.req.setIndex = Numeric(2)
    /\ srv.calls[1].params.packMode = Undefined
    /\ srv.calls[1].params.excludeNumbers = <<7, 12>>
    /\ srv.calls[1].params.userData = Text("profile")

----------------------------------------------------------------------------
(* Pack expansion *)

\* C(n, k)
RECURSIVE Binomial(_, _)
Binomial(n, k) ==
    IF k = 0 THEN 1
    ELSE IF n < k THEN 0
    ELSE Binomial(n - 1, k - 1) + Binomial(n - 1, k)

\* The numbers of the ticket rows of an output, banner left out.
TicketsShown(output) ==
    [i \in 1..(Len(output) - 1) |-> output[i + 1].numbers]

----------------------------------------------------------------------------
(* App.init: the code between its awaits.  An invocation is at "firebase"   *)
(* or "profile" while it awaits the service of that name, at "fetch" while  *)
(* it awaits initFetch, and ends "returned" (the try block completed),      *)
(* "raised" (the catch block ran) or "skipped" (one of the two guards).     *)

MaxInits == 3

InProgress == {i \in DOMAIN inits : inits[i].pc \in {"firebase", "profile", "fetch"}}

\* The catch block, then the statement after the try.
InitCatch(i) ==
    /\ state' = [state EXCEPT !.isInitializing = FALSE]
    /\ inits' = [inits EXCEPT ![i].pc = "raised"]

\* The end of the try block, then the statement after the try.
InitCompletes(i, S) ==
    /\ state' = [S.state EXCEPT !.isInitialized = TRUE, !.isInitializing = FALSE]
    /\ dom' = S.dom
    /\ inits' = [inits EXCEPT ![i].pc = "returned"]

\* Mutant: only a finished initialisation turns a call away.
InitCalled_Unguarded ==
    /\ Len(inits) < MaxInits
    /\ IF state.isInitialized
       THEN /\ inits' = Append(inits, [pc |-> "skipped", cycle |-> 0])
            /\ UNCHANGED state
       ELSE /\ inits' = Append(inits, [pc |-> "firebase", cycle |-> 0])
            /\ state' = [state EXCEPT !.isInitializing = TRUE]
    /\ UNCHANGED <<dom, cyc, nStarted, now, world, storage, passes, budget, srv, cal,
                   timers>>

\* A call of App.init: the two guards, then up to the first await.
InitCalled ==
    /\ Len(inits) < MaxInits
    /\ IF state.isInitialized \/ state.isInitializing
       THEN /\ inits' = Append(inits, [pc |-> "skipped", cycle |-> 0])
            /\ UNCHANGED state
       ELSE /\ inits' = Append(inits, [pc |-> "firebase", cycle |-> 0])
            /\ state' = [state EXCEPT !.isInitializing = TRUE]
    /\ UNCHANGED <<dom, cyc, nStarted, now, world, storage, passes, budget, srv, cal,
                   timers>>

\* FirebaseService.init() settles.
FirebaseSettles(i) ==
    /\ inits[i].pc = "firebase"
    /\ \/ /\ inits' = [inits EXCEPT ![i].pc = "profile"]
          /\ UNCHANGED state
       \/ InitCatch(i)
    /\ UNCHANGED <<dom, cyc, nStarted, now, world, storage, passes, budget, srv, cal,
                   timers>>

\* ProfileService.init() rejects.
ProfileFails(i) ==
    /\ inits[i].pc = "profile"
    /\ InitCatch(i)
    /\ UNCHANGED <<dom, cyc, nStarted, now, world, storage, passes, budget, srv, cal,
                   timers>>

\* ProfileService.init() resolves: the listeners are bound and initFetch is
\* called.  Within the cooldown it returns at once and init completes;
\* otherwise it runs up to the await of the baseline fetch.
ProfileReady(i) ==
    /\ inits[i].pc = "profile"
    /\ LET S == [Cur EXCEPT !.state.eventListenersAttached = TRUE]
       IN  IF now - state.lastInitFetchTime < COOLDOWN_MS
           THEN /\ InitCompletes(i, S)
                /\ UNCHANGED <<cyc, nStarted>>
           ELSE /\ nStarted < budget
                /\ nStarted' = nStarted + 1
                /\ state' = [S.state EXCEPT !.lastInitFetchTime = now]
                /\ dom' = [dom EXCEPT !.status = "loading"]
                /\ cyc' = [cyc EXCEPT ![nStarted + 1].pc = "json"]
                /\ inits' = [inits EXCEPT ![i] = [pc |-> "fetch", cycle |-> nStarted + 1]]
    /\ UNCHANGED <<now, world, storage, passes, budget, srv, cal, timers>>

\* The initFetch that init awaits has returned: init resumes before any other
\* task of the page runs.
InitResumable(i) ==
    /\ inits[i].pc = "fetch"
    /\ cyc[inits[i].cycle].pc = "done"

InitResumes(i) ==
    /\ InitResumable(i)
    /\ InitCompletes(i, Cur)
    /\ UNCHANGED <<cyc, nStarted, now, world, storage, passes, budget, srv, cal, timers>>

NextBoot ==
    \/ \E i \in DOMAIN inits : InitResumes(i)
    \/ /\ \A i \in DOMAIN inits : ~InitResumable(i)
       /\ \/ InitCalled
          \/ \E i \in DOMAIN inits :
                \/ FirebaseSettles(i)
                \/ ProfileFails(i)
                \/ ProfileReady(i)
          \/ Next

\* One world; a page whose scripts may also call initFetch themselves.
InitBoot ==
    InitWith({CHOOSE b \in AppBases : b.jackpots.has}, AppZips, {None},
             {CHOOSE l \in AppLives : TRUE}, {MaxCycles})

SpecBoot == InitBoot /\ [][NextBoot]_vars

\* The invocation that ended in the step, if one did.
Ended(i) == i \in InProgress /\ inits'[i].pc \in {"returned", "raised"}

(* C31. Initialization guard: at most one init body is in progress at a     *)
(* time; a call made while another is in progress or after isInitialized is *)
(* set changes nothing; isInitialized is set only by an invocation whose    *)
(* whole sequence, the initFetch call included, has returned; and every     *)
(* invocation that started leaves isInitializing false when it ends, so     *)
(* that the next call starts again.                                         *)
C31_InitGuard ==
    /\ [](Cardinality(InProgress) <= 1)
    /\ [](state.isInitializing <=> InProgress # {})
    /\ [][/\ Len(inits') > Len(inits) =>
              IF state.isInitialized \/ InProgress # {}
              THEN /\ inits'[Len(inits')].pc = "skipped"
                   /\ UNCHANGED <<state, dom, cyc, nStarted, storage, passes, timers>>
              ELSE inits'[Len(inits')].pc = "firebase"
          /\ state'.isInitialized /\ ~state.isInitialized =>
              \E i \in InProgress :
                 /\ inits'[i].pc = "returned"
                 /\ \/ inits[i].pc = "fetch" /\ cyc[inits[i].cycle].pc = "done"
                    \/ /\ inits[i].pc = "profile"
                       /\ now - state.lastInitFetchTime < COOLDOWN_MS
                 /\ \A j \in DOMAIN inits \ {i} : inits[j].pc \notin {"returned"}
          /\ \A i \in DOMAIN inits :
                 /\ Ended(i) => ~state'.isInitializing
                 /\ Ended(i) /\ inits'[i].pc = "raised" => ~state'.isInitialized]_vars

\* An init failed, a call made during the retry was turned away, and the
\* retry completed after its reconciliation cycle.
C31_Witness ==
    /\ Len(inits) = 3
    /\ inits[1].pc = "raised"
    /\ inits[2].pc = "returned" /\ inits[2].cycle # 0
    /\ inits[3].pc = "skipped"
    /\ state.isInitialized /\ ~state.isInitializing
    /\ state.eventListenersAttached

----------------------------------------------------------------------------
(* Reconciliation cycles whose fetches all settle *)

\* Cycle i has been accepted and has not returned.
Pending(i) == cyc[i].pc \notin {"idle", "done"}

\* The fetch that cycle i awaits settles, one way or the other: the cycle
\* moves on from its await.
Settles(i) ==
    /\ Pending(i)
    /\ cyc' \in {[cyc EXCEPT ![i].pc = pc] :
                    pc \in {"body", "zips", "live", "done"} \ {cyc[i].pc}}

InitSettle ==
    InitWith(AppBases, AppZips, AppCaches, {CHOOSE l \in AppLives : TRUE}, {MaxCycles})

SpecSettle ==
    InitSettle /\ [][Next]_vars /\ \A i \in 1..MaxCycles : WF_cyc(Settles(i))

\* The status the freshness evaluation gives for the Timeline S holds.
Evaluated(S) == checkSystemStatus(S, now).dom.status

(* C32. Status is never stuck at loading: an accepted cycle sets the status *)
(* to loading; the step in which a cycle returns, on whichever path, sets   *)
(* it to what the freshness evaluation of the Timeline then installed       *)
(* gives, success or error; the status is not loading once no cycle is     *)
(* pending; and, every fetch settling, every accepted cycle returns.        *)
C32_StatusSettles ==
    /\ []((nStarted > 0 /\ \A i \in 1..MaxCycles : ~Pending(i)) =>
             dom.status \in {"success", "error"})
    /\ [][\A i \in 1..MaxCycles :
            /\ ~Pending(i) /\ Pending(i)' => dom'.status = "loading"
            /\ Pending(i) /\ ~Pending(i)' =>
                  /\ dom'.status \in {"success", "error"}
                  /\ dom'.status = Evaluated([state |-> state', dom |-> dom'])]_vars
    /\ \A i \in 1..MaxCycles :
          Pending(i) ~> (cyc[i].pc = "done" /\ dom.status \in {"success", "error"})

\* Both cycles have returned, the second after the first, one by the catch
\* block and one by the empty-live path, and the status is not loading.
C32_Witness ==
    /\ \A i \in 1..MaxCycles : cyc[i].pc = "done"
    /\ dom.status \in {"success", "error"}
    /\ \E i \in 1..MaxCycles : PassesOf(i) = {}
    /\ \E i \in 1..MaxCycles : Cardinality(PassesOf(i)) = 1

----------------------------------------------------------------------------
(* C33. Refreshed data reaches the dashboard: the step in which a refresh   *)
(* pass installs a new Timeline while a game is selected, which is also the *)
(* step in which the cycle finishes, leaves the dashboard showing the       *)
(* selected game's records of the refreshed Timeline, not those of the      *)
(* initial pass; the update throttle does not get in the way.               *)
C33_RefreshReachesDashboard ==
    [][RefreshInstalledNow /\ state.currentGame # "" =>
          /\ dom'.dash.game = state'.currentGame
          /\ dom'.dash.data = Get(LastPass'.tl, state'.currentGame)]_vars

----------------------------------------------------------------------------
(* The filter inputs (App.bindEvents) and App.debouncedUpdateDashboard *)

DEBOUNCE_DELAY == 300

\* Bounds of the runs: the filter events, and the steps of StepMs of the clock.
MaxEvents == 2
MaxSteps == 4
StepMs == 150

setTimeout(T, t, delay) ==
    [T EXCEPT !.next = @ + 1, !.pending = @ \cup {[id |-> T.next, due |-> t + delay]}]

clearTimeout(T, id) == [T EXCEPT !.pending = {x \in @ : x.id # id}]

\* Mutant: the timer of the previous event is left to run.
debouncedUpdateDashboard_NoClear(st, T, t) ==
    [ state  |-> [st EXCEPT !.debounceTimers = T.next],
      timers |-> setTimeout(T, t, DEBOUNCE_DELAY) ]

\* App.debouncedUpdateDashboard at time t, over App.state st and the timer
\* table T.
debouncedUpdateDashboard(st, T, t) ==
    LET T1 == IF st.debounceTimers # NoTimer THEN clearTimeout(T, st.debounceTimers)
              ELSE T
    IN  [ state  |-> [st EXCEPT !.debounceTimers = T1.next],
          timers |-> setTimeout(T1, t, DEBOUNCE_DELAY) ]

\* What the period input and the two selects may hold.
PeriodTexts == {<<>>, <<3>>}
YearTexts == {<<1, 9, 7, 1>>}
MonthTexts == {<<1>>}

\* A filter event has left App.state st: the handler debounces the update.
FilterEvent(st) ==
    LET D == debouncedUpdateDashboard(st, timers, now)
    IN  /\ state.eventListenersAttached
        /\ timers.events < MaxEvents
        /\ state' = D.state
        /\ timers' = [D.timers EXCEPT
                         !.events = @ + 1,
                         !.last = Some([at |-> now,
                                        filters |-> <<st.filterPeriod, st.filterYear,
                                                      st.filterMonth>>]),
                         !.calls = 0]
        /\ UNCHANGED <<dom, cyc, nStarted, now, world, storage, passes, budget, srv, cal,
                       inits>>

\* The listeners of the period input and of the year and month selects.
PeriodInput(text) == FilterEvent([state EXCEPT !.filterPeriod = text])
YearChanged(text) == FilterEvent([state EXCEPT !.filterYear = text])
MonthChanged(text) == FilterEvent([state EXCEPT !.filterMonth = text])

\* A timer that is due runs its callback: this.updateDashboard().
TimerFires ==
    \E timer \in timers.pending :
        /\ timer.due <= now
        /\ LET S1 == updateDashboard(Cur, now)
           IN  /\ state' = S1.state
               /\ dom' = S1.dom
        /\ timers' = [timers EXCEPT !.pending = @ \ {timer}, !.calls = @ + 1,
                                     !.ran = @ + 1]
        /\ UNCHANGED <<cyc, nStarted, now, world, storage, passes, budget, srv, cal, inits>>

\* The earliest time a pending timer is due, or t if that comes first.
Earliest(t) ==
    LET dues == {x.due : x \in timers.pending} \cup {t}
    IN  CHOOSE d \in dues : \A e \in dues : d <= e

\* Time passes, up to the next timer at most: timers run when they are due.
Elapse ==
    /\ now < StartDay * DAY_MS + MaxSteps * StepMs
    /\ \A x \in timers.pending : x.due > now
    /\ now' = Earliest(now + StepMs)
    /\ UNCHANGED <<state, dom, cyc, nStarted, world, storage, passes, budget, srv, cal,
                   inits, timers>>

\* window.onload: the page calls App.init once.
WindowOnload == inits = <<>> /\ InitCalled

NextDebounce ==
    \/ \E text \in PeriodTexts : PeriodInput(text)
    \/ \E text \in YearTexts : YearChanged(text)
    \/ \E text \in MonthTexts : MonthChanged(text)
    \/ TimerFires
    \/ Elapse
    \/ \E i \in DOMAIN inits : InitResumes(i)
    \/ /\ \A i \in DOMAIN inits : ~InitResumable(i)
       /\ \/ WindowOnload
          \/ \E i \in DOMAIN inits :
                \/ FirebaseSettles(i)
                \/ ProfileFails(i)
                \/ ProfileReady(i)
          \/ \E i \in 1..MaxCycles :
                \/ JsonFetchFailed(i)
                \/ JsonFetchNotOk(i)
                \/ JsonFetchOk(i)
                \/ JsonBodyFailed(i)
                \/ JsonBodyParsed(i)
                \/ ZipsSettled(i)
                \/ LiveFailed(i)
                \/ LiveEmpty(i)
                \/ LiveArrived(i)
          \/ \E g \in ClickGames : ClickGame(g)

\* One world: the baseline holds period 1 of Daily539 and the live feed
\* adds period 3.
InitDebounce ==
    InitWith({CHOOSE b \in AppBases : b.jackpots.has}, AppZips, {None},
             {l \in AppLives : l["Daily539"][1].period = 3 /\ l["Daily539"][1].jackpot = 0}, {1})

SpecDebounce == InitDebounce /\ [][NextDebounce]_vars

\* The filter values App.state holds.
FiltersOf(st) == <<st.filterPeriod, st.filterYear, st.filterMonth>>

\* An update asked for now would return at the throttle.
Throttled == now - state.lastDashboardUpdate < DASHBOARD_UPDATE_THROTTLE

\* The step runs a timer callback.
CallbackRuns == timers'.calls = timers.calls + 1

(* C34. Debounce: at most one dashboard-update timer is pending at any      *)
(* time, and it is due 300 ms after the last filter event; each filter      *)
(* event replaces the timer of the one before, so that a burst of events    *)
(* less than 300 ms apart runs the callback once, 300 ms after its last     *)
(* event; the update the callback makes reads the filter values that event  *)
(* left, and the dashboard then shows records filtered by them.             *)
C34_Debounce ==
    /\ [](Cardinality(timers.pending) <= 1)
    /\ [](\A timer \in timers.pending :
              /\ timers.last.has
              /\ timer.due = timers.last.v.at + DEBOUNCE_DELAY
              /\ timer.id = state.debounceTimers
              /\ timers.calls = 0
              /\ now <= timer.due)
    /\ [](timers.last.has /\ timers.pending = {} => timers.calls = 1)
    /\ [][CallbackRuns =>
              /\ now = timers.last.v.at + DEBOUNCE_DELAY
              /\ timers'.calls = 1
              /\ timers'.pending = {}
              /\ FiltersOf(state) = timers.last.v.filters =>
                    /\ dom'.dash.filters = timers.last.v.filters
                    /\ ~Throttled =>
                          dom'.dash.data =
                              Filtered(Get(state.rawData, state.currentGame),
                                       timers.last.v.filters[1],
                                       timers.last.v.filters[2],
                                       timers.last.v.filters[3])]_vars

\* A burst of two filter events, the second leaving period 3 typed: the
\* timer of the first was cleared, the callback ran once in all, 300 ms
\* after the second, and the dashboard shows the one record of the two of
\* Daily539 that the filter keeps.
C34_Witness ==
    /\ timers.last.has
    /\ timers.events = 2
    /\ timers.next = 3
    /\ timers.ran = 1
    /\ timers.calls = 1
    /\ timers.pending = {}
    /\ now = timers.last.v.at + DEBOUNCE_DELAY
    /\ timers.last.v.filters[1] = <<3>>
    /\ state.lastDashboardUpdate = now
    /\ dom.dash.filters = timers.last.v.filters
    /\ state.currentGame = "Daily539"
    /\ Len(Get(state.rawData, "Daily539")) = 2
    /\ Len(dom.dash.data) = 1
    /\ dom.dash.data[1].period = 3

----------------------------------------------------------------------------
\* The three answers of the dispatcher.
IsInvalidRequest(r) ==
    /\ r.status = 400
    /\ r.body.error \in {ERR_MISSING, ERR_GAME, ERR_SCHOOL}
    /\ "success" \notin DOMAIN r.body

IsSuccess(r) ==
    /\ r.status = 200
    /\ "metadata" \in DOMAIN r.body
    /\ "error" \notin DOMAIN r.body

IsPredictionFailed(r) ==
    /\ r.status = 500
    /\ r.body.error = ERR_PREDICT
    /\ r.body.success = FALSE

(* C35. One response per request: nothing is sent before the handler has    *)
(* run, and the handler, whatever the request body and whatever the         *)
(* strategy does (returns an array, an object or null, or raises), sends    *)
(* exactly one response, which is exactly one of InvalidRequest (400),      *)
(* success (200) and PredictionFailed (500).                                *)
C35_OneResponse ==
    /\ [](srv.phase = "handling" => srv.sent = <<>>)
    /\ [][srv.phase = "handling" /\ srv'.phase = "idle" =>
              /\ Len(srv'.sent) = 1
              /\ Cardinality({k \in {"invalid", "success", "failed"} :
                                \/ k = "invalid" /\ IsInvalidRequest(srv'.sent[1])
                                \/ k = "success" /\ IsSuccess(srv'.sent[1])
                                \/ k = "failed" /\ IsPredictionFailed(srv'.sent[1])}) = 1
              /\ IsSuccess(srv'.sent[1]) =>
                    /\ srv'.calls # <<>>
                    /\ srv'.calls[1].returned.k \in {"array", "object"}
              /\ srv'.calls # <<>> /\ srv'.calls[1].returned.k \in {"null", "throw"} =>
                    IsPredictionFailed(srv'.sent[1])]_vars

\* The strategy returned null for a valid request, and the one response
\* sent is the failure.
C35_Witness ==
    /\ Answered /\ Invoked
    /\ Returned.k = "null"
    /\ Len(srv.sent) = 1
    /\ IsPredictionFailed(Response)

====
